---- MODULE Spec2Model ----
(***************************************************************************)
(* Incremental rank layout of a directed graph with containers             *)
(* (vue-flow-diagram).  The canvas is the pair of lists nodes / edges; the *)
(* only operation that changes it is addToGraph, which prefixes a          *)
(* fragment, ranks the merged graph (computeOrdering), lays it out         *)
(* (layoutRanks, layoutContainerChildren) and appends the new records.     *)
(*                                                                         *)
(* Conventions of the translation:                                         *)
(*  - ids are strings, a prefix is applied by string concatenation;        *)
(*  - an absent numeric field (width, height) is 0 and an absent           *)
(*    parentNode is "": JavaScript's `v || d` and `!v` treat the absent    *)
(*    value and these alike;                                               *)
(*  - a JavaScript Map is a sequence of entries in insertion order or a    *)
(*    function, a Set is a set;                                            *)
(*  - dagre.layout only writes x and y on the labels of the graph it is    *)
(*    given, so `node.order ?? 0` is 0 for every node and the stable sort  *)
(*    by order keeps each rank in g.nodes() order.                         *)
(***************************************************************************)
EXTENDS Integers, Sequences, FiniteSets, TLC

NODE_WIDTH == 160
NODE_HEIGHT == 48
RANK_GAP == 80
NODE_GAP == 50
CONTAINER_PADDING == 20
CONTAINER_CHILD_GAP == 50

\* value of a JavaScript `find` that found nothing, kept in a queue of ids
Undefined == "<undefined>"

Range(s) == {s[i] : i \in DOMAIN s}

\* Array.prototype.includes
Includes(s, x) == \E i \in DOMAIN s : s[i] = x

\* JavaScript `v || d` on numbers (0 and undefined are both falsy)
OrDefault(v, d) == IF v = 0 THEN d ELSE v

Max(a, b) == IF a >= b THEN a ELSE b

MaxOfSet(S) == CHOOSE m \in S : \A k \in S : m >= k

\* the ids of a list of nodes or containers: list.map(n => n.id)
Ids(s) == [i \in DOMAIN s |-> s[i].id]

(***************************************************************************)
(* computeOrdering                                                         *)
(***************************************************************************)

\* containers.some(c => c.childIds.includes(id))
IsContainerChild(containers, id) ==
    \E i \in DOMAIN containers : Includes(containers[i].childIds, id)

\* containers.some(c => c.id === id)
IsContainerId(containers, id) ==
    \E i \in DOMAIN containers : containers[i].id = id

\* mainNodeIds: the nodes that are no container's child
MainNodeIds(allNodes, containers) ==
    {allNodes[i].id : i \in {j \in DOMAIN allNodes :
                                ~IsContainerChild(containers, allNodes[j].id)}}

\* g.setNode on a key the graph already has keeps the key's place
SetNode(gNodes, id) == IF Includes(gNodes, id) THEN gNodes ELSE Append(gNodes, id)

RECURSIVE SetNodes(_, _)
SetNodes(gNodes, ids) ==
    IF ids = <<>> THEN gNodes
    ELSE SetNodes(SetNode(gNodes, Head(ids)), Tail(ids))

\* g.nodes() with the container children added as nodes too
GraphNodesAll(allNodes, containers) ==
    SetNodes(SetNodes(<<>>, Ids(allNodes)), Ids(containers))

\* g.nodes() after the two setNode loops: main nodes first, then containers
GraphNodes(allNodes, containers) ==
    LET main == SelectSeq(allNodes, LAMBDA n : ~IsContainerChild(containers, n.id))
    IN  SetNodes(SetNodes(<<>>, Ids(main)), Ids(containers))

\* childToContainer.get(id): the last container listing the child wins
ChildToContainer(containers, id) ==
    containers[MaxOfSet({i \in DOMAIN containers :
                            Includes(containers[i].childIds, id)})].id

\* an edge endpoint left as it is, a container child not replaced
CollapseNone(containers, id) == id

\* an edge endpoint with a container child replaced by its container
Collapse(containers, id) ==
    IF IsContainerChild(containers, id) THEN ChildToContainer(containers, id) ELSE id

\* g.setEdge: one edge per (v, w), in the place of its first insertion
SetEdge(gEdges, e) == IF Includes(gEdges, e) THEN gEdges ELSE Append(gEdges, e)

RECURSIVE SetEdges(_, _, _, _)
SetEdges(gEdges, allEdges, main, containers) ==
    IF allEdges = <<>> THEN gEdges
    ELSE LET source == Collapse(containers, Head(allEdges).source)
             target == Collapse(containers, Head(allEdges).target)
             sourceIsMain == source \in main \/ IsContainerId(containers, source)
             targetIsMain == target \in main \/ IsContainerId(containers, target)
         IN  SetEdges(IF sourceIsMain /\ targetIsMain /\ source # target
                        THEN SetEdge(gEdges, [v |-> source, w |-> target])
                        ELSE gEdges,
                      Tail(allEdges), main, containers)

\* g.edges() after the allEdges.forEach of lines 67-89
GraphEdges(allNodes, allEdges, containers) ==
    SetEdges(<<>>, allEdges, MainNodeIds(allNodes, containers), containers)

\* g.outEdges(v)
OutEdges(gEdges, v) == SelectSeq(gEdges, LAMBDA e : e.v = v)

\* the out-edges of a dequeued node visited with targetRank = rank + 2
RECURSIVE VisitOutEdgesSkip(_, _, _)
VisitOutEdgesSkip(st, out, rank) ==
    IF out = <<>> THEN st
    ELSE LET targetId == Head(out).w
         IN  IF targetId \notin st.visited
               THEN VisitOutEdgesSkip(
                      [queue |-> Append(st.queue, [id |-> targetId, rank |-> rank + 2]),
                       visited |-> st.visited \cup {targetId},
                       ranks |-> (targetId :> (rank + 2)) @@ st.ranks],
                      Tail(out), rank)
               ELSE VisitOutEdgesSkip(st, Tail(out), rank)

\* the out-edges of a dequeued node visited with ranks.set outside the
\* visited test: a later edge into a ranked element ranks it again
RECURSIVE VisitOutEdgesLate(_, _, _)
VisitOutEdgesLate(st, out, rank) ==
    IF out = <<>> THEN st
    ELSE LET targetId == Head(out).w
         IN  VisitOutEdgesLate(
               [queue |-> IF targetId \notin st.visited
                            THEN Append(st.queue, [id |-> targetId, rank |-> rank + 1])
                            ELSE st.queue,
                visited |-> st.visited \cup {targetId},
                ranks |-> (targetId :> (rank + 1)) @@ st.ranks],
               Tail(out), rank)

\* the forEach over the out-edges of one dequeued node: st is
\* [queue, visited, ranks]
RECURSIVE VisitOutEdges(_, _, _)
VisitOutEdges(st, out, rank) ==
    IF out = <<>> THEN st
    ELSE LET targetId == Head(out).w
         IN  IF targetId \notin st.visited
               THEN VisitOutEdges(
                      [queue |-> Append(st.queue, [id |-> targetId, rank |-> rank + 1]),
                       visited |-> st.visited \cup {targetId},
                       ranks |-> (targetId :> (rank + 1)) @@ st.ranks],
                      Tail(out), rank)
               ELSE VisitOutEdges(st, Tail(out), rank)

\* the while loop of bfsFromRoot
RECURSIVE BfsLoop(_, _, _)
BfsLoop(st, head, gEdges) ==
    IF head > Len(st.queue) THEN st
    ELSE BfsLoop(VisitOutEdges(st, OutEdges(gEdges, st.queue[head].id),
                               st.queue[head].rank),
                 head + 1, gEdges)

\* bfsFromRoot(rootId, startRank) on the shared visited / ranks
bfsFromRoot(rootId, startRank, visited, ranks, gEdges) ==
    LET st == BfsLoop([queue |-> <<[id |-> rootId, rank |-> startRank]>>,
                       visited |-> visited \cup {rootId},
                       ranks |-> (rootId :> startRank) @@ ranks],
                      1, gEdges)
    IN  [visited |-> st.visited, ranks |-> st.ranks]

\* hasIncoming
HasIncoming(gEdges) == {gEdges[i].w : i \in DOMAIN gEdges}

\* allNodeIds.forEach of lines 136-141: one BFS per unvisited root
RECURSIVE ProcessRoots(_, _, _)
ProcessRoots(ids, st, gEdges) ==
    IF ids = <<>> THEN st
    ELSE IF Head(ids) \notin st.visited /\ Head(ids) \notin HasIncoming(gEdges)
           THEN ProcessRoots(Tail(ids),
                             bfsFromRoot(Head(ids), 0, st.visited, st.ranks, gEdges),
                             gEdges)
           ELSE ProcessRoots(Tail(ids), st, gEdges)

\* allNodeIds.forEach of lines 144-150: what no root reaches gets rank 0
RECURSIVE RankUnvisited(_, _)
RankUnvisited(ids, st) ==
    IF ids = <<>> THEN st
    ELSE IF Head(ids) \notin st.visited
           THEN RankUnvisited(Tail(ids),
                              [visited |-> st.visited \cup {Head(ids)},
                               ranks |-> (Head(ids) :> 0) @@ st.ranks])
           ELSE RankUnvisited(Tail(ids), st)

\* the ranks map of computeOrdering, a function on g.nodes()
Ranks(gNodes, gEdges) ==
    RankUnvisited(gNodes,
                  ProcessRoots(gNodes, [visited |-> {}, ranks |-> <<>>], gEdges)).ranks

\* the ids of a rank, in g.nodes() order (every order is 0, the sort is stable)
RankNodes(gNodes, ranks, rank) == SelectSeq(gNodes, LAMBDA id : ranks[id] = rank)

computeOrdering(allNodes, allEdges, containers) ==
    LET Ordering(gNodes, gEdges, ranks) ==
            [gNodes |-> gNodes, gEdges |-> gEdges, ordering |-> ranks,
             rankKeys |-> {ranks[id] : id \in Range(gNodes)}]
        Ranked(gNodes, gEdges) == Ordering(gNodes, gEdges, Ranks(gNodes, gEdges))
    IN  Ranked(GraphNodes(allNodes, containers),
               GraphEdges(allNodes, allEdges, containers))

(***************************************************************************)
(* layoutContainerChildren                                                 *)
(***************************************************************************)

\* childNodes.find(n => n.id === id), as the id found or Undefined
FindChild(childNodes, id) ==
    IF \E i \in DOMAIN childNodes : childNodes[i].id = id THEN id ELSE Undefined

\* the while loop of lines 202-217; queue holds ids (or Undefined), visited is
\* the list of ids in the order childOrder numbers them.  Reading current.id
\* of an undefined queue entry throws a TypeError.
RECURSIVE ChildBfs(_, _, _, _)
ChildBfs(queue, visited, childNodes, childEdges) ==
    IF queue = <<>> THEN [threw |-> FALSE, visited |-> visited]
    ELSE LET current == Head(queue)
         IN  IF current = Undefined THEN [threw |-> TRUE, visited |-> visited]
             ELSE IF Includes(visited, current)
               THEN ChildBfs(Tail(queue), visited, childNodes, childEdges)
               ELSE LET visited2 == Append(visited, current)
                        out == SelectSeq(childEdges,
                                 LAMBDA e : e.source = current
                                            /\ ~Includes(visited2, e.target))
                    IN  ChildBfs(Tail(queue) \o
                                   [i \in DOMAIN out |->
                                      FindChild(childNodes, out[i].target)],
                                 visited2, childNodes, childEdges)

\* childOrder.get(id) ?? 999
ChildOrderKey(visited, id) ==
    IF Includes(visited, id)
      THEN (CHOOSE i \in DOMAIN visited : visited[i] = id) - 1
      ELSE 999

\* the children left in the order of the list, not sorted
SortByOrderNone(children, visited) == children

\* Array.prototype.sort with the comparator orderA - orderB (a stable sort)
RECURSIVE SortByOrder(_, _)
SortByOrder(children, visited) ==
    IF children = <<>> THEN <<>>
    ELSE LET n == Len(children)
             last == children[n]
             rest == SortByOrder(SubSeq(children, 1, n - 1), visited)
             pos == Cardinality({i \in DOMAIN rest :
                        ChildOrderKey(visited, rest[i].id)
                          <= ChildOrderKey(visited, last.id)})
         IN  SubSeq(rest, 1, pos) \o <<last>> \o SubSeq(rest, pos + 1, Len(rest))

\* sortedChildren.forEach of lines 227-240: acc is [childPositions, currentY, maxWidth]
RECURSIVE PlaceChildren(_, _)
PlaceChildren(children, acc) ==
    IF children = <<>> THEN acc
    ELSE LET child == Head(children)
             childWidth == OrDefault(child.width, NODE_WIDTH)
             childHeight == OrDefault(child.height, NODE_HEIGHT)
         IN  PlaceChildren(Tail(children),
               [childPositions |-> Append(acc.childPositions,
                                     [id |-> child.id, x |-> CONTAINER_PADDING,
                                      y |-> acc.currentY,
                                      width |-> childWidth, height |-> childHeight]),
                currentY |-> acc.currentY + childHeight + CONTAINER_CHILD_GAP,
                maxWidth |-> Max(acc.maxWidth, childWidth)])

\* the container box without its padding
ContainerSizeNoPadding(maxWidth, currentY) ==
    [width |-> maxWidth,
     height |-> currentY - CONTAINER_CHILD_GAP - CONTAINER_PADDING]

\* containerWidth, containerHeight of lines 242-243
ContainerSize(maxWidth, currentY) ==
    [width |-> maxWidth + (CONTAINER_PADDING * 2),
     height |-> currentY - CONTAINER_CHILD_GAP + CONTAINER_PADDING]

layoutContainerChildren(container, childNodes, childEdges) ==
    LET rootNodes == SelectSeq(childNodes,
                       LAMBDA child : ~\E i \in DOMAIN childEdges :
                                          childEdges[i].target = child.id)
        Result(placed) ==
            [threw |-> FALSE, childPositions |-> placed.childPositions,
             size |-> ContainerSize(placed.maxWidth, placed.currentY)]
        Place(sortedChildren) ==
            Result(PlaceChildren(sortedChildren,
                     [childPositions |-> <<>>, currentY |-> CONTAINER_PADDING,
                      maxWidth |-> 0]))
        Sorted(bfs) ==
            IF bfs.threw
              THEN [threw |-> TRUE, childPositions |-> <<>>,
                    size |-> [width |-> 0, height |-> 0]]
              ELSE Place(SortByOrder(childNodes, bfs.visited))
    IN  IF Len(childEdges) > 0
          THEN Sorted(ChildBfs(Ids(rootNodes), <<>>, childNodes, childEdges))
          ELSE Place(childNodes)

(***************************************************************************)
(* layoutRanks                                                             *)
(***************************************************************************)

\* the existing records layoutRanks tracks: those without parentNode
TopLevel(records) == SelectSeq(records, LAMBDA n : n.parentNode = "")

\* isExisting left empty: every element is laid out as a new one
IsExistingNone(existingNodes) == {}

\* isExisting
IsExistingSet(existingNodes) == {n.id : n \in Range(TopLevel(existingNodes))}

\* existingPositions.get(id)
ExistingPosition(existingNodes, id) ==
    LET n == CHOOSE n \in Range(TopLevel(existingNodes)) : n.id = id
    IN  [x |-> n.x, y |-> n.y]

\* maxExistingY of lines 264-272 (a top-level record's style.height, when it
\* has one, is its height followed by "px")
MaxExistingY(existingNodes) ==
    IF Len(existingNodes) > 0
      THEN MaxOfSet({n.y + OrDefault(n.height, NODE_HEIGHT) :
                       n \in Range(TopLevel(existingNodes))} \cup {0})
      ELSE 0

\* allNodes.find(n => n.id === id) finds something
HasNode(allNodes, id) == \E i \in DOMAIN allNodes : allNodes[i].id = id

\* allNodes.find(n => n.id === id)
FindNode(allNodes, id) ==
    allNodes[CHOOSE i \in DOMAIN allNodes :
               /\ allNodes[i].id = id
               /\ \A j \in DOMAIN allNodes : allNodes[j].id = id => i <= j]

\* containers.find(c => c.id === id)
FindContainer(containers, id) ==
    containers[CHOOSE i \in DOMAIN containers :
                 /\ containers[i].id = id
                 /\ \A j \in DOMAIN containers : containers[j].id = id => i <= j]

\* nodesInRank.forEach of lines 288-306: the rightmost x of the existing
\* elements of the rank, a container counted with the placeholder NODE_WIDTH
RECURSIVE SeedCurrentX(_, _, _, _, _)
SeedCurrentX(nodesInRank, currentX, allNodes, containers, existingNodes) ==
    IF nodesInRank = <<>> THEN currentX
    ELSE LET nodeId == Head(nodesInRank)
             width == IF IsContainerId(containers, nodeId) THEN NODE_WIDTH
                      ELSE IF HasNode(allNodes, nodeId)
                             THEN OrDefault(FindNode(allNodes, nodeId).width, NODE_WIDTH)
                             ELSE NODE_WIDTH
             rightX == ExistingPosition(existingNodes, nodeId).x + width
         IN  SeedCurrentX(Tail(nodesInRank),
                          IF nodeId \in IsExistingSet(existingNodes) /\ rightX > currentX
                            THEN rightX + NODE_GAP
                            ELSE currentX,
                          allNodes, containers, existingNodes)

\* the arguments layoutRanks gives layoutContainerChildren (lines 313-317)
ContainerLayout(container, allNodes, allEdges) ==
    layoutContainerChildren(container,
        SelectSeq(allNodes, LAMBDA n : Includes(container.childIds, n.id)),
        SelectSeq(allEdges, LAMBDA e : /\ Includes(container.childIds, e.source)
                                       /\ Includes(container.childIds, e.target)))

\* first pass, lines 310-337: acc is [currentX, maxHeightInRank, containerData, threw]
RECURSIVE FirstPass(_, _, _, _, _, _)
FirstPass(nodesInRank, acc, allNodes, containers, existingNodes, allEdges) ==
    IF nodesInRank = <<>> \/ acc.threw THEN acc
    ELSE LET nodeId == Head(nodesInRank)
             rest == Tail(nodesInRank)
         IN  IF IsContainerId(containers, nodeId)
               THEN LET container == FindContainer(containers, nodeId)
                        Measured(containerLayout, rightX) ==
                            [currentX |->
                               IF container.id \in IsExistingSet(existingNodes)
                                  /\ rightX > acc.currentX
                                 THEN rightX + NODE_GAP
                                 ELSE acc.currentX,
                             maxHeightInRank |->
                               Max(acc.maxHeightInRank, containerLayout.size.height),
                             containerData |->
                               (container.id :> containerLayout) @@ acc.containerData,
                             threw |-> FALSE]
                        Laid(containerLayout) ==
                            IF containerLayout.threw
                              THEN [acc EXCEPT !.threw = TRUE]
                              ELSE FirstPass(rest,
                                     Measured(containerLayout,
                                       ExistingPosition(existingNodes, container.id).x
                                         + containerLayout.size.width),
                                     allNodes, containers, existingNodes, allEdges)
                    IN  Laid(ContainerLayout(container, allNodes, allEdges))
               ELSE FirstPass(rest,
                      IF HasNode(allNodes, nodeId)
                        THEN [acc EXCEPT !.maxHeightInRank =
                                Max(@, OrDefault(FindNode(allNodes, nodeId).height,
                                                 NODE_HEIGHT))]
                        ELSE acc,
                      allNodes, containers, existingNodes, allEdges)

\* second pass, lines 340-377: acc is [currentX, nodePositions]
RECURSIVE SecondPass(_, _, _, _, _, _, _)
SecondPass(nodesInRank, acc, rankY, containerData, allNodes, containers, existingNodes) ==
    IF nodesInRank = <<>> THEN acc
    ELSE LET nodeId == Head(nodesInRank)
             rest == Tail(nodesInRank)
             existing == ExistingPosition(existingNodes, nodeId)
             here == [x |-> acc.currentX, y |-> rankY]
         IN  IF IsContainerId(containers, nodeId)
               THEN IF nodeId \in IsExistingSet(existingNodes)
                      THEN SecondPass(rest,
                             [acc EXCEPT !.nodePositions = (nodeId :> existing) @@ @],
                             rankY, containerData, allNodes, containers,
                             existingNodes)
                      ELSE SecondPass(rest,
                             [currentX |-> acc.currentX
                                             + containerData[nodeId].size.width + NODE_GAP,
                              nodePositions |-> (nodeId :> here) @@ acc.nodePositions],
                             rankY, containerData, allNodes, containers,
                             existingNodes)
               ELSE IF ~HasNode(allNodes, nodeId)
                      THEN SecondPass(rest, acc, rankY, containerData, allNodes,
                                      containers, existingNodes)
               ELSE IF nodeId \in IsExistingSet(existingNodes) /\ Len(existingNodes) > 0
                      THEN SecondPass(rest,
                             [acc EXCEPT !.nodePositions = (nodeId :> existing) @@ @],
                             rankY, containerData, allNodes, containers,
                             existingNodes)
                      ELSE SecondPass(rest,
                             [currentX |-> acc.currentX
                                 + OrDefault(FindNode(allNodes, nodeId).width, NODE_WIDTH)
                                 + NODE_GAP,
                              nodePositions |-> (nodeId :> here) @@ acc.nodePositions],
                             rankY, containerData, allNodes, containers,
                             existingNodes)

\* let currentRankY = 0 (line 276): the top of the first rank processed;
\* maxExistingY is computed before it and read nowhere
InitialRankY == 0

\* ranks.forEach of lines 281-381: acc is [currentRankY, nodePositions,
\* containerData, rankTop, threw]; rankTop records currentRankY per rank
RECURSIVE LayoutRankLoop(_, _, _, _, _, _, _)
LayoutRankLoop(ranks, acc, ordering, allNodes, containers, existingNodes, allEdges) ==
    IF ranks = <<>> \/ acc.threw THEN acc
    ELSE LET rank == Head(ranks)
             nodesInRank == RankNodes(ordering.gNodes, ordering.ordering, rank)
             seedX == IF Len(existingNodes) > 0
                        THEN SeedCurrentX(nodesInRank, 0, allNodes, containers,
                                          existingNodes)
                        ELSE 0
             Second(first) ==
                 SecondPass(nodesInRank,
                   [currentX |-> first.currentX, nodePositions |-> acc.nodePositions],
                   acc.currentRankY, first.containerData, allNodes, containers,
                   existingNodes)
             Placed(first) ==
                 IF first.threw THEN [acc EXCEPT !.threw = TRUE]
                 ELSE LayoutRankLoop(Tail(ranks),
                        [currentRankY |->
                           acc.currentRankY + first.maxHeightInRank + RANK_GAP,
                         nodePositions |-> Second(first).nodePositions,
                         containerData |-> first.containerData,
                         rankTop |-> (rank :> acc.currentRankY) @@ acc.rankTop,
                         threw |-> FALSE],
                        ordering, allNodes, containers, existingNodes, allEdges)
         IN  Placed(FirstPass(nodesInRank,
                      [currentX |-> seedX, maxHeightInRank |-> 0,
                       containerData |-> acc.containerData, threw |-> FALSE],
                      allNodes, containers, existingNodes, allEdges))

\* Array.from(rankMap.keys()).sort((a, b) => a - b)
RECURSIVE SortedRanks(_)
SortedRanks(keys) ==
    IF keys = {} THEN <<>>
    ELSE LET m == CHOOSE m \in keys : \A k \in keys : m <= k
         IN  <<m>> \o SortedRanks(keys \ {m})

layoutRanks(ordering, allNodes, containers, existingNodes, allEdges) ==
    LET maxExistingY == MaxExistingY(existingNodes)
        Result(done) ==
            [nodePositions |-> done.nodePositions,
             containerData |-> done.containerData, rankTop |-> done.rankTop,
             maxExistingY |-> maxExistingY, threw |-> done.threw]
    IN  Result(LayoutRankLoop(SortedRanks(ordering.rankKeys),
                 [currentRankY |-> InitialRankY, nodePositions |-> <<>>,
                  containerData |-> <<>>, rankTop |-> <<>>, threw |-> FALSE],
                 ordering, allNodes, containers, existingNodes, allEdges))

(***************************************************************************)
(* addToGraph                                                              *)
(***************************************************************************)

\* a canvas node record: id, position {x, y}, width, height, parentNode and
\* whether it has style.border (the mark of a container record); the other
\* fields of a record (type, data.label, draggable, ...) are fixed by these
NodeRecord(id, pos, width, height) ==
    [id |-> id, x |-> pos.x, y |-> pos.y, width |-> width, height |-> height,
     parentNode |-> "", border |-> FALSE]

ContainerRecord(id, pos, size) ==
    [id |-> id, x |-> pos.x, y |-> pos.y, width |-> size.width,
     height |-> size.height, parentNode |-> "", border |-> TRUE]

ChildRecord(id, childPos, parent) ==
    [id |-> id, x |-> childPos.x, y |-> childPos.y, width |-> 0, height |-> 0,
     parentNode |-> parent, border |-> FALSE]

EdgeRecord(source, target) ==
    [id |-> "edge-" \o source \o "-" \o target, source |-> source, target |-> target]

\* `graph_${graphInstanceCounter++}_`
\* a prefix that does not read the counter
AutoPrefixFixed(counter) == "graph_"

\* `graph_${graphInstanceCounter++}_`
AutoPrefix(counter) == "graph_" \o ToString(counter) \o "_"

PrefixNodes(newNodes, prefix) ==
    [i \in DOMAIN newNodes |-> [newNodes[i] EXCEPT !.id = prefix \o newNodes[i].id]]

PrefixEdges(newEdges, prefix) ==
    [i \in DOMAIN newEdges |-> [source |-> prefix \o newEdges[i].source,
                                target |-> prefix \o newEdges[i].target]]

PrefixContainers(newContainers, prefix) ==
    [i \in DOMAIN newContainers |->
        [id |-> prefix \o newContainers[i].id,
         childIds |-> [k \in DOMAIN newContainers[i].childIds |->
                         prefix \o newContainers[i].childIds[k]]]]

ExistingNodeIds(existing) == {n.id : n \in Range(existing)}

ExistingContainerIds(existing) == {n.id : n \in {m \in Range(existing) : m.border}}

NodesToAdd(prefixNodes, existing) ==
    SelectSeq(prefixNodes, LAMBDA n : n.id \notin ExistingNodeIds(existing))

ContainersToAdd(prefixContainers, existing) ==
    SelectSeq(prefixContainers, LAMBDA c : c.id \notin ExistingContainerIds(existing))

AllNodes(existing, nodesToAdd) ==
    LET top == TopLevel(existing)
    IN  [i \in DOMAIN top |->
            [id |-> top[i].id, width |-> OrDefault(top[i].width, NODE_WIDTH),
             height |-> OrDefault(top[i].height, NODE_HEIGHT)]]
          \o nodesToAdd

AllContainers(existing, containersToAdd) ==
    LET boxes == SelectSeq(existing, LAMBDA n : n.border)
    IN  [i \in DOMAIN boxes |->
            [id |-> boxes[i].id,
             childIds |-> Ids(SelectSeq(existing,
                                LAMBDA child : child.parentNode = boxes[i].id))]]
          \o containersToAdd

AllEdges(existingEdges, prefixEdges) ==
    [i \in DOMAIN existingEdges |->
        [source |-> existingEdges[i].source, target |-> existingEdges[i].target]]
      \o prefixEdges

\* const flowNodes = [...nodes.value] (line 485)
FlowNodesStart(existing) == existing

\* nodesToAdd.forEach of lines 496-513
RECURSIVE AddNodes(_, _, _, _)
AddNodes(nodesToAdd, flowNodes, nodePositions, allContainers) ==
    IF nodesToAdd = <<>> THEN flowNodes
    ELSE LET node == Head(nodesToAdd)
         IN  AddNodes(Tail(nodesToAdd),
               IF /\ node.id \in DOMAIN nodePositions
                  /\ ~IsContainerChild(allContainers, node.id)
                  /\ ~IsContainerId(allContainers, node.id)
                  /\ node.id \notin ExistingNodeIds(flowNodes)
                 THEN Append(flowNodes,
                        NodeRecord(node.id, nodePositions[node.id],
                                   OrDefault(node.width, NODE_WIDTH),
                                   OrDefault(node.height, NODE_HEIGHT)))
                 ELSE flowNodes,
               nodePositions, allContainers)

\* childPositions.get(childId) finds something
HasChildPosition(childPositions, childId) ==
    \E i \in DOMAIN childPositions : childPositions[i].id = childId

\* childPositions.get(childId)
ChildPosition(childPositions, childId) ==
    childPositions[CHOOSE i \in DOMAIN childPositions : childPositions[i].id = childId]

\* container.childIds.forEach of lines 542-556
RECURSIVE AddChildren(_, _, _, _)
AddChildren(childIds, flowNodes, layout, containerId) ==
    IF childIds = <<>> THEN flowNodes
    ELSE LET childId == Head(childIds)
         IN  AddChildren(Tail(childIds),
               IF /\ HasChildPosition(layout.childPositions, childId)
                  /\ childId \notin ExistingNodeIds(flowNodes)
                 THEN Append(flowNodes,
                        ChildRecord(childId,
                                    ChildPosition(layout.childPositions, childId),
                                    containerId))
                 ELSE flowNodes,
               layout, containerId)

\* containersToAdd.forEach of lines 516-558
RECURSIVE AddContainers(_, _, _, _)
AddContainers(containersToAdd, flowNodes, nodePositions, containerData) ==
    IF containersToAdd = <<>> THEN flowNodes
    ELSE LET container == Head(containersToAdd)
         IN  AddContainers(Tail(containersToAdd),
               IF /\ container.id \in DOMAIN nodePositions
                  /\ container.id \in DOMAIN containerData
                  /\ container.id \notin ExistingNodeIds(flowNodes)
                 THEN AddChildren(container.childIds,
                        Append(flowNodes,
                               ContainerRecord(container.id, nodePositions[container.id],
                                               containerData[container.id].size)),
                        containerData[container.id], container.id)
                 ELSE flowNodes,
               nodePositions, containerData)

\* every edge of the fragment pushed, without the addedEdgeIds test
AddEdgesAlways(prefixEdges, flowEdges) ==
    flowEdges \o [i \in DOMAIN prefixEdges |->
                    EdgeRecord(prefixEdges[i].source, prefixEdges[i].target)]

\* prefixEdges.forEach of lines 561-573
RECURSIVE AddEdges(_, _)
AddEdges(prefixEdges, flowEdges) ==
    IF prefixEdges = <<>> THEN flowEdges
    ELSE LET edge == Head(prefixEdges)
             record == EdgeRecord(edge.source, edge.target)
         IN  AddEdges(Tail(prefixEdges),
               IF record.id \notin {e.id : e \in Range(flowEdges)}
                 THEN Append(flowEdges, record)
                 ELSE flowEdges)

\* one call of addToGraph on the canvas (existing, existingEdges): the lists it
\* assigns to nodes.value and edges.value, or threw when an exception leaves
\* the call before the assignment of lines 578-579
addToGraph(fragment, prefix, existing, existingEdges) ==
    LET prefixNodes == PrefixNodes(fragment.nodes, prefix)
        prefixEdges == PrefixEdges(fragment.edges, prefix)
        prefixContainers == PrefixContainers(fragment.containers, prefix)
        nodesToAdd == NodesToAdd(prefixNodes, existing)
        containersToAdd == ContainersToAdd(prefixContainers, existing)
        allNodes == AllNodes(existing, nodesToAdd)
        allContainers == AllContainers(existing, containersToAdd)
        allEdges == AllEdges(existingEdges, prefixEdges)
        flowEdges == AddEdges(prefixEdges, existingEdges)
        Result(ordering, layout) ==
            [threw |-> layout.threw,
             nodes |-> IF layout.threw THEN existing
                       ELSE AddContainers(containersToAdd,
                              AddNodes(nodesToAdd, FlowNodesStart(existing),
                                       layout.nodePositions, allContainers),
                              layout.nodePositions, layout.containerData),
             edges |-> IF layout.threw THEN existingEdges ELSE flowEdges,
             ordering |-> ordering, layout |-> layout]
        Layout(ordering) ==
            Result(ordering,
                   layoutRanks(ordering, allNodes, allContainers, existing, allEdges))
    IN  Layout(computeOrdering(allNodes, allEdges, allContainers))

(***************************************************************************)
(* The fragments given to addToGraph                                       *)
(***************************************************************************)

\* the longest sequence of insertions explored
MaxCalls == 2

N(id) == [id |-> id, width |-> 0, height |-> 0]
NS(id, width, height) == [id |-> id, width |-> width, height |-> height]
E(source, target) == [source |-> source, target |-> target]
C(id, childIds) == [id |-> id, childIds |-> childIds]

InitialIds == <<"A", "B", "C", "D", "E", "F", "G", "H", "I", "J", "K", "L">>

\* initialGraphData of data.js as part_001 carries it
initialGraphData ==
    [nodes |-> [i \in 1..Len(InitialIds) |-> NS(InitialIds[i], NODE_WIDTH, NODE_HEIGHT)],
     edges |-> <<E("A", "B"), E("A", "C"), E("C", "D"), E("D", "E"), E("A", "F"),
                 E("F", "G"), E("G", "H"), E("H", "L"), E("A", "I"), E("I", "J"),
                 E("J", "K")>>,
     containers |-> <<C("success", <<"C", "D", "E">>),
                      C("failure", <<"F", "G", "H", "L">>)>>]

\* the fragments a caller passes: a tree, a container below a root, a
\* container as root with a wide and tall child, an edge to an undeclared id,
\* an undeclared id among a container's children, nodes attached to nodes of
\* an earlier fragment, a cycle without a root, an empty container, and an
\* edge listed twice
Fragments ==
    << [nodes |-> <<N("a"), N("b"), N("c")>>,
        edges |-> <<E("a", "b"), E("a", "c")>>,
        containers |-> <<>>],
       [nodes |-> <<N("a"), N("c"), N("d")>>,
        edges |-> <<E("a", "c"), E("c", "d")>>,
        containers |-> <<C("X", <<"c", "d">>)>>],
       [nodes |-> <<N("c"), NS("d", 200, 100), N("b")>>,
        edges |-> <<E("d", "c"), E("c", "b")>>,
        containers |-> <<C("X", <<"c", "d">>)>>],
       [nodes |-> <<N("a")>>,
        edges |-> <<E("a", "z")>>,
        containers |-> <<>>],
       [nodes |-> <<N("a"), N("b")>>,
        edges |-> <<E("a", "z"), E("a", "b")>>,
        containers |-> <<C("X", <<"a", "z">>)>>],
       [nodes |-> <<NS("e", 100, 0)>>,
        edges |-> <<E("a", "e")>>,
        containers |-> <<>>],
       [nodes |-> <<N("f")>>,
        edges |-> <<E("c", "f")>>,
        containers |-> <<>>],
       [nodes |-> <<N("g"), N("h")>>,
        edges |-> <<E("g", "h"), E("h", "g"), E("g", "g")>>,
        containers |-> <<>>],
       [nodes |-> <<N("b")>>,
        edges |-> <<>>,
        containers |-> <<C("Y", <<>>)>>],
       [nodes |-> <<N("a"), N("b")>>,
        edges |-> <<E("a", "b"), E("a", "b")>>,
        containers |-> <<>>] >>

\* the explicit prefixes a caller passes; the second is the one the first
\* automatic call generates
ExplicitPrefixes == {"p_", "graph_0_"}

(***************************************************************************)
(* The state machine                                                       *)
(***************************************************************************)

VARIABLES
    nodes,                  \* nodes.value
    edges,                  \* edges.value
    graphInstanceCounter,   \* the counter of automatic prefixes
    subGraphCounter,        \* the counter of addSubGraph's prefixes
    calls,                  \* the calls of addToGraph made so far
    last,                   \* what the latest call computed on its way
    graph,                  \* the arguments of a call of computeOrdering on its own
    ranked,                 \* what that call returned
    box,                    \* the arguments of a call of layoutContainerChildren on its own
    boxLayout,              \* what that call returned
    traversal               \* a breadth-first traversal followed step by step

vars ==
    <<nodes, edges, graphInstanceCounter, subGraphCounter, calls, last, graph, ranked,
      box, boxLayout, traversal>>

NoRun ==
    [kind |-> "none", pc |-> "idle", i |-> 0, queue |-> <<>>, head |-> 0, out |-> <<>>,
     rank |-> 0, visited |-> <<>>, ranks |-> <<>>, sets |-> <<>>,
     allNodeIds |-> <<>>, gEdges |-> <<>>]

NoBox == [childNodes |-> <<>>, childEdges |-> <<>>]

NotLaidOut ==
    [done |-> FALSE, threw |-> FALSE, childPositions |-> <<>>,
     size |-> [width |-> 0, height |-> 0]]

NoGraph == [allNodes |-> <<>>, allEdges |-> <<>>, containers |-> <<>>]

NotRanked == [done |-> FALSE, gNodes |-> <<>>, gEdges |-> <<>>, ordering |-> <<>>]

NoCall ==
    [threw |-> FALSE, ordering |-> <<>>, gEdges |-> <<>>, nodePositions |-> <<>>,
     containerData |-> <<>>, rankTop |-> <<>>, maxExistingY |-> 0,
     existingCount |-> 0, existingTop |-> {}, existingIds |-> {}]

Init ==
    /\ nodes = <<>>
    /\ edges = <<>>
    /\ graphInstanceCounter = 0
    /\ subGraphCounter = 0
    /\ calls = <<>>
    /\ last = NoCall
    /\ graph = NoGraph
    /\ ranked = NotRanked
    /\ box = NoBox
    /\ boxLayout = NotLaidOut
    /\ traversal = NoRun

\* the effect of one call addToGraph(fragment, prefix) on the state
Call(frag, fragment, prefix, explicit) ==
    LET Assign(r) ==
            /\ nodes' = r.nodes
            /\ edges' = r.edges
            /\ calls' = Append(calls, [frag |-> frag, prefix |-> prefix,
                                       explicit |-> explicit, threw |-> r.threw])
            /\ last' = [threw |-> r.threw,
                        ordering |-> r.ordering.ordering,
                        gEdges |-> r.ordering.gEdges,
                        nodePositions |-> r.layout.nodePositions,
                        containerData |-> r.layout.containerData,
                        rankTop |-> r.layout.rankTop,
                        maxExistingY |-> r.layout.maxExistingY,
                        existingCount |-> Len(nodes),
                        existingTop |-> {n.id : n \in {m \in Range(nodes) :
                                                          m.parentNode = ""}},
                        existingIds |-> {n.id : n \in Range(nodes)}]
    IN  /\ Assign(addToGraph(fragment, prefix, nodes, edges))
        /\ UNCHANGED <<subGraphCounter, graph, ranked, box, boxLayout, traversal>>

\* onMounted: await addToGraph(initialGraphData)
OnMounted ==
    /\ calls = <<>>
    /\ Call(0, initialGraphData, AutoPrefix(graphInstanceCounter), FALSE)
    /\ graphInstanceCounter' = graphInstanceCounter + 1

\* addToGraph(fragment): prefix === null
AddToGraphAuto(f) ==
    /\ Len(calls) < MaxCalls
    /\ Call(f, Fragments[f], AutoPrefix(graphInstanceCounter), FALSE)
    /\ graphInstanceCounter' = graphInstanceCounter + 1

\* addToGraph(fragment, prefix)
AddToGraphPrefix(f, prefix) ==
    /\ Len(calls) < MaxCalls
    /\ Call(f, Fragments[f], prefix, TRUE)
    /\ UNCHANGED graphInstanceCounter

Next ==
    \/ OnMounted
    \/ \E f \in DOMAIN Fragments : AddToGraphAuto(f)
    \/ \E f \in DOMAIN Fragments, prefix \in ExplicitPrefixes : AddToGraphPrefix(f, prefix)

Spec == Init /\ [][Next]_vars

(***************************************************************************)
(* computeOrdering on its own, over every small merged graph               *)
(***************************************************************************)

\* the most edges of a graph given to computeOrdering on its own
MaxEdges == 4

OrderingIds == <<"a", "b", "c", "d">>

\* every ordered pair of ids, self-loops included, in a fixed order
OrderingPairs ==
    [k \in 1..(Len(OrderingIds) * Len(OrderingIds)) |->
        E(OrderingIds[((k - 1) \div Len(OrderingIds)) + 1],
          OrderingIds[((k - 1) % Len(OrderingIds)) + 1])]

\* the container lists: none, one container with one child, one with two
OrderingContainers ==
    {<<>>, <<C("X", <<"d">>)>>, <<C("X", <<"c", "d">>)>>}

RECURSIVE PickEdges(_, _)
PickEdges(k, chosen) ==
    IF k > Len(OrderingPairs) THEN <<>>
    ELSE (IF k \in chosen THEN <<OrderingPairs[k]>> ELSE <<>>) \o PickEdges(k + 1, chosen)

OrderingGraphs ==
    {[allNodes |-> [i \in DOMAIN OrderingIds |-> N(OrderingIds[i])],
      allEdges |-> PickEdges(1, chosen), containers |-> containers] :
        chosen \in {S \in SUBSET DOMAIN OrderingPairs : Cardinality(S) <= MaxEdges},
        containers \in OrderingContainers}
    \cup {NoGraph}

InitOrdering ==
    /\ nodes = <<>>
    /\ edges = <<>>
    /\ graphInstanceCounter = 0
    /\ subGraphCounter = 0
    /\ calls = <<>>
    /\ last = NoCall
    /\ graph \in OrderingGraphs
    /\ ranked = NotRanked
    /\ box = NoBox
    /\ boxLayout = NotLaidOut
    /\ traversal = NoRun

\* computeOrdering(allNodes, allEdges, containers)
ComputeOrdering ==
    /\ ~ranked.done
    /\ LET Assign(r) == ranked' = [done |-> TRUE, gNodes |-> r.gNodes,
                                    gEdges |-> r.gEdges, ordering |-> r.ordering]
       IN  Assign(computeOrdering(graph.allNodes, graph.allEdges, graph.containers))
    /\ UNCHANGED <<nodes, edges, graphInstanceCounter, subGraphCounter, calls, last,
                   graph, box, boxLayout, traversal>>

NextOrdering == ComputeOrdering

SpecOrdering == InitOrdering /\ [][NextOrdering]_vars

(***************************************************************************)
(* Properties                                                              *)
(***************************************************************************)

TopRecords == Range(TopLevel(nodes))

LastCall == calls[Len(calls)]

\* the latest call ran to its end
Completed == Len(calls) > 0 /\ ~LastCall.threw

\* C1: position stability.  A call of addToGraph leaves every record of the
\* canvas on the canvas with the same position {x, y}, and layoutRanks gives
\* every existing top-level element its stored position.
PositionStability ==
    [][/\ \A n \in Range(nodes) :
            /\ \E m \in Range(nodes') : m.id = n.id
            /\ \A m \in Range(nodes') : m.id = n.id => m.x = n.x /\ m.y = n.y
       /\ \A n \in TopRecords :
            n.id \in DOMAIN last'.nodePositions
              => last'.nodePositions[n.id] = [x |-> n.x, y |-> n.y]]_vars

\* a second insertion ran to its end on a canvas with top-level records, laid
\* one of them out again and added records
PositionStabilityWitness ==
    /\ Len(calls) >= 2
    /\ Completed
    /\ Len(nodes) > last.existingCount
    /\ \E id \in last.existingTop : id \in DOMAIN last.nodePositions

\* C2: no overlap.  The boxes of two distinct top-level records never overlap.
Overlap(a, b) ==
    /\ a.x < b.x + b.width
    /\ b.x < a.x + a.width
    /\ a.y < b.y + b.height
    /\ b.y < a.y + a.height

NoOverlap ==
    \A a \in TopRecords, b \in TopRecords : a.id # b.id => ~Overlap(a, b)

\* C3: idempotence.  A call with the fragment and the prefix of the call
\* before it changes neither the nodes list nor the edges list.
Idempotence ==
    [][(/\ Len(calls) >= 1
        /\ Len(calls') = Len(calls) + 1
        /\ calls'[Len(calls')].frag = LastCall.frag
        /\ calls'[Len(calls')].prefix = LastCall.prefix)
         => nodes' = nodes /\ edges' = edges]_vars

\* the same fragment was inserted twice with one explicit prefix, and the
\* canvas holds nodes and edges
IdempotenceWitness ==
    /\ Len(calls) >= 2
    /\ calls[Len(calls) - 1].frag = LastCall.frag
    /\ calls[Len(calls) - 1].prefix = LastCall.prefix
    /\ LastCall.explicit /\ calls[Len(calls) - 1].explicit
    /\ Completed
    /\ Len(nodes) > 0 /\ Len(edges) > 0

\* C4: edge endpoints.  The source and the target of every edge record are
\* ids of node records of the canvas.
EdgeEndpoints ==
    \A e \in Range(edges) :
        /\ e.source \in ExistingNodeIds(nodes)
        /\ e.target \in ExistingNodeIds(nodes)

\* C5: a dangling edge is not fatal.  When the fragment of the latest call
\* has an edge with an endpoint that is no declared node of the fragment and
\* was not on the canvas, the call ran to its end and every node, every
\* container and every other edge of the fragment is on the canvas.
IsDangling(fragment, prefix, e) ==
    \E id \in {prefix \o e.source, prefix \o e.target} :
        /\ id \notin {prefix \o n.id : n \in Range(fragment.nodes)}
        /\ id \notin last.existingIds

DanglingEdgeNotFatal ==
    (Len(calls) > 0 /\ LastCall.frag \in DOMAIN Fragments)
      => LET fragment == Fragments[LastCall.frag]
             prefix == LastCall.prefix
         IN  (\E e \in Range(fragment.edges) : IsDangling(fragment, prefix, e))
               => /\ ~LastCall.threw
                  /\ \A n \in Range(fragment.nodes) :
                        prefix \o n.id \in ExistingNodeIds(nodes)
                  /\ \A c \in Range(fragment.containers) :
                        prefix \o c.id \in ExistingNodeIds(nodes)
                  /\ \A e \in Range(fragment.edges) :
                        ~IsDangling(fragment, prefix, e)
                          => EdgeRecord(prefix \o e.source, prefix \o e.target)
                               \in Range(edges)

\* the elements of the collapsed graph without an incoming edge
Roots(gNodes, gEdges) == {id \in Range(gNodes) : id \notin {e.w : e \in Range(gEdges)}}

\* the elements a directed path from an element of S leads to
RECURSIVE ReachableFrom(_, _)
ReachableFrom(S, gEdges) ==
    LET next == S \cup {e.w : e \in {d \in Range(gEdges) : d.v \in S}}
    IN  IF next = S THEN S ELSE ReachableFrom(next, gEdges)

Reached == ReachableFrom(Roots(ranked.gNodes, ranked.gEdges), ranked.gEdges)

\* C6 as the claim has it: rank monotonicity.  Every collapsed edge (u, v)
\* between elements reachable from a root has rank(v) >= rank(u) + 1.
RankMonotonicity ==
    ranked.done
      => \A e \in Range(ranked.gEdges) :
            (e.v \in Reached /\ e.w \in Reached)
              => ranked.ordering[e.w] >= ranked.ordering[e.v] + 1

\* C6 as amended: every root has rank 0, and every other element reachable
\* from a root has a rank >= 1 and an incoming collapsed edge (u, v), u
\* reachable from a root, with rank(v) = rank(u) + 1.
RankFirstReached ==
    ranked.done
      => \A v \in Reached :
            IF v \in Roots(ranked.gNodes, ranked.gEdges)
              THEN ranked.ordering[v] = 0
              ELSE /\ ranked.ordering[v] >= 1
                   /\ \E e \in Range(ranked.gEdges) :
                        /\ e.w = v
                        /\ e.v \in Reached
                        /\ ranked.ordering[v] = ranked.ordering[e.v] + 1

\* a ranked graph with an edge between reachable elements that does not go
\* down a rank
RankFirstReachedWitness ==
    /\ ranked.done
    /\ \E e \in Range(ranked.gEdges) :
         /\ e.v \in Reached /\ e.w \in Reached
         /\ ranked.ordering[e.w] <= ranked.ordering[e.v]
    /\ \E v \in Reached : ranked.ordering[v] >= 2

\* C7: containment.  In every container the latest call laid out, the box of
\* every child lies within [0, width] x [0, height] of the container.
Containment ==
    \A id \in DOMAIN last.containerData :
        LET layout == last.containerData[id]
        IN  \A p \in Range(layout.childPositions) :
              /\ 0 <= p.x /\ p.x + p.width <= layout.size.width
              /\ 0 <= p.y /\ p.y + p.height <= layout.size.height

\* a container was laid out with two children of different sizes
ContainmentWitness ==
    \E id \in DOMAIN last.containerData :
        \E p \in Range(last.containerData[id].childPositions),
           q \in Range(last.containerData[id].childPositions) :
             p.width # q.width /\ p.y < q.y

\* C8: the vertical cursor starts in free space.  The top of the first rank
\* of an insertion is maxExistingY + RANK_GAP on a canvas with top-level
\* content and 0 on an empty canvas.
FreeSpaceStart ==
    (Completed /\ 0 \in DOMAIN last.rankTop)
      => last.rankTop[0] = IF last.existingTop # {}
                             THEN last.maxExistingY + RANK_GAP
                             ELSE 0

\* C9: horizontal cursor seeding.  An element the latest call placed in a rank
\* with existing elements lies at least NODE_GAP right of each of them.
HorizontalSeeding ==
    Completed
      => \A n \in TopRecords, e \in TopRecords :
            (/\ n.id \notin last.existingIds
             /\ e.id \in last.existingTop
             /\ n.id \in DOMAIN last.ordering
             /\ e.id \in DOMAIN last.ordering
             /\ last.ordering[n.id] = last.ordering[e.id])
              => n.x >= e.x + e.width + NODE_GAP

\* C10: one rank per row.  Top-level elements of one rank have the same top
\* y, and an element of a higher rank has a larger top y.
OneRankPerRow ==
    Completed
      => \A a \in TopRecords, b \in TopRecords :
            (a.id \in DOMAIN last.ordering /\ b.id \in DOMAIN last.ordering)
              => /\ last.ordering[a.id] = last.ordering[b.id] => a.y = b.y
                 /\ last.ordering[a.id] < last.ordering[b.id] => a.y < b.y

(***************************************************************************)
(* Two insertions of one fragment                                          *)
(***************************************************************************)

\* the fragment a call was given
FragmentOf(frag) == IF frag = 0 THEN initialGraphData ELSE Fragments[frag]

\* the top-level elements of a fragment: the nodes that are no container's
\* child, and the containers
TopIds(fragment) ==
    {n.id : n \in {m \in Range(fragment.nodes) :
                      ~IsContainerChild(fragment.containers, m.id)}}
      \cup {c.id : c \in Range(fragment.containers)}

\* the top-level elements of a fragment without an incoming edge, an edge into
\* a child counting as an edge into its container
FragmentRoots(fragment) ==
    {id \in TopIds(fragment) :
        ~\E e \in Range(fragment.edges) :
            /\ Collapse(fragment.containers, e.target) = id
            /\ Collapse(fragment.containers, e.source) # id}

\* the canvas record of an id
RecordOf(id) == CHOOSE n \in Range(nodes) : n.id = id

\* the canvas holds two copies of one single-root fragment, from two
\* insertions with automatic prefixes on an empty canvas
TwoCopies ==
    /\ Len(calls) = 2
    /\ ~calls[1].threw /\ ~calls[2].threw
    /\ ~calls[1].explicit /\ ~calls[2].explicit
    /\ calls[1].frag = calls[2].frag
    /\ Cardinality(FragmentRoots(FragmentOf(calls[1].frag))) = 1

CopyIds(k) == {calls[k].prefix \o id : id \in TopIds(FragmentOf(calls[k].frag))}

\* C11: two insertions of an identical single-root fragment with automatic
\* prefixes give two copies with disjoint ids, whose top-level elements do
\* not overlap, the second of the same shape as the first (equal sizes and
\* equal offsets between corresponding elements) and strictly below or
\* strictly right of the first.
TwoCopiesDisjointSameShape ==
    TwoCopies
      => LET ids == TopIds(FragmentOf(calls[1].frag))
             first(id) == RecordOf(calls[1].prefix \o id)
             second(id) == RecordOf(calls[2].prefix \o id)
         IN  /\ CopyIds(1) \cap CopyIds(2) = {}
             /\ \A i \in DOMAIN nodes, j \in DOMAIN nodes :
                    nodes[i].id = nodes[j].id => i = j
             /\ \A id \in CopyIds(1) \cup CopyIds(2) :
                    \E n \in TopRecords : n.id = id
             /\ \A a \in TopRecords, b \in TopRecords :
                    a.id # b.id => ~Overlap(a, b)
             /\ \A a \in ids, b \in ids :
                    /\ second(a).x - second(b).x = first(a).x - first(b).x
                    /\ second(a).y - second(b).y = first(a).y - first(b).y
                    /\ second(a).width = first(a).width
                    /\ second(a).height = first(a).height
             /\ \/ \A a \in ids, b \in ids :
                      second(a).x >= first(b).x + first(b).width
                \/ \A a \in ids, b \in ids :
                      second(a).y >= first(b).y + first(b).height

(***************************************************************************)
(* The scenario of initialGraphData                                        *)
(***************************************************************************)

\* the canvas holds the scenario fragment and nothing else
ScenarioInserted ==
    /\ Len(calls) = 1
    /\ calls[1].frag = 0
    /\ ~calls[1].threw

\* the id an element of the scenario has on the canvas
Scenario(id) == calls[1].prefix \o id

\* C15: scenario ranks.  For the scenario fragment computeOrdering gives
\* rank(A) = 0 and rank(B) = rank(success) = rank(failure) = rank(I) = 1, and
\* B is the child of no container.
ScenarioRanks ==
    ScenarioInserted
      => /\ last.ordering[Scenario("A")] = 0
         /\ \A id \in {"B", "success", "failure", "I"} :
                last.ordering[Scenario(id)] = 1
         /\ ~IsContainerChild(PrefixContainers(initialGraphData.containers,
                                               calls[1].prefix),
                              Scenario("B"))
         /\ RecordOf(Scenario("B")).parentNode = ""

\* the scenario was ranked: its seven top-level elements have a rank
ScenarioRanksWitness ==
    /\ ScenarioInserted
    /\ DOMAIN last.ordering =
         {Scenario(id) : id \in {"A", "B", "I", "J", "K", "success", "failure"}}

\* C16 as the claim has it: after the scenario is inserted, no edge record of
\* the canvas goes from D to E, and one goes from A to the container success.
ScenarioEdgesOnCanvas ==
    ScenarioInserted
      => /\ ~\E e \in Range(edges) :
               e.source = Scenario("D") /\ e.target = Scenario("E")
         /\ \E e \in Range(edges) :
               e.source = Scenario("A") /\ e.target = Scenario("success")

\* C16 as amended: after the scenario is inserted, the collapsed graph that
\* computeOrdering ranks has no edge from D to E and no edge with a child of
\* success as an endpoint, and has the edge from A to success; the canvas has
\* one edge record for every declared edge, D -> E and A -> C among them, and
\* no edge record with the container success as an endpoint.
ScenarioEdgesInMainList ==
    ScenarioInserted
      => /\ \A e \in Range(last.gEdges) :
               {e.v, e.w} \cap {Scenario("C"), Scenario("D"), Scenario("E")} = {}
         /\ \E e \in Range(last.gEdges) :
               e.v = Scenario("A") /\ e.w = Scenario("success")
         /\ \A d \in Range(initialGraphData.edges) :
               \E e \in Range(edges) :
                  e.source = Scenario(d.source) /\ e.target = Scenario(d.target)
         /\ ~\E e \in Range(edges) :
               Scenario("success") \in {e.source, e.target}

\* the scenario was inserted: the canvas has its eleven edge records and the
\* collapsed graph its edges
ScenarioEdgesWitness ==
    /\ ScenarioInserted
    /\ Len(edges) = Len(initialGraphData.edges)
    /\ Len(last.gEdges) > 0

(***************************************************************************)
(* layoutContainerChildren on its own                                      *)
(***************************************************************************)

MaxBoxEdges == 3

BoxIds == <<"a", "b", "c">>

\* a child without width and height, and a wide and tall one
BoxSizes == {[width |-> 0, height |-> 0], [width |-> 200, height |-> 100]}

\* the lists of children: up to three distinct ids in any order, each of
\* either size
BoxChildLists ==
    {[i \in DOMAIN order |->
         NS(BoxIds[order[i]], size[order[i]].width, size[order[i]].height)] :
       order \in {o \in UNION {[1..n -> DOMAIN BoxIds] : n \in 0..Len(BoxIds)} :
                     \A i \in DOMAIN o, j \in DOMAIN o : o[i] = o[j] => i = j},
       size \in [DOMAIN BoxIds -> BoxSizes]}

\* every ordered pair of ids, self-loops included, in a fixed order
BoxPairs ==
    [k \in 1..(Len(BoxIds) * Len(BoxIds)) |->
        E(BoxIds[((k - 1) \div Len(BoxIds)) + 1], BoxIds[((k - 1) % Len(BoxIds)) + 1])]

RECURSIVE PickBoxEdges(_, _)
PickBoxEdges(k, chosen) ==
    IF k > Len(BoxPairs) THEN <<>>
    ELSE (IF k \in chosen THEN <<BoxPairs[k]>> ELSE <<>>) \o PickBoxEdges(k + 1, chosen)

Reverse(s) == [i \in DOMAIN s |-> s[Len(s) + 1 - i]]

\* the lists of edges among the ids, as listed or in the reverse order; an
\* edge may name an id that is not in the list of children
BoxEdgeLists ==
    {IF reversed THEN Reverse(PickBoxEdges(1, chosen)) ELSE PickBoxEdges(1, chosen) :
       chosen \in {S \in SUBSET DOMAIN BoxPairs : Cardinality(S) <= MaxBoxEdges},
       reversed \in BOOLEAN}

InitContainer ==
    /\ nodes = <<>>
    /\ edges = <<>>
    /\ graphInstanceCounter = 0
    /\ subGraphCounter = 0
    /\ calls = <<>>
    /\ last = NoCall
    /\ graph = NoGraph
    /\ ranked = NotRanked
    /\ box \in [childNodes : BoxChildLists, childEdges : BoxEdgeLists]
    /\ boxLayout = NotLaidOut
    /\ traversal = NoRun

\* layoutContainerChildren(container, childNodes, childEdges)
LayoutContainerChildren ==
    /\ ~boxLayout.done
    /\ LET Assign(r) ==
               boxLayout' = [done |-> TRUE, threw |-> r.threw,
                             childPositions |-> r.childPositions, size |-> r.size]
       IN  Assign(layoutContainerChildren(C("X", Ids(box.childNodes)),
                                          box.childNodes, box.childEdges))
    /\ UNCHANGED <<nodes, edges, graphInstanceCounter, subGraphCounter, calls, last,
                   graph, ranked, box, traversal>>

NextContainer == LayoutContainerChildren

SpecContainer == InitContainer /\ [][NextContainer]_vars

\* the call returned
LaidOut == boxLayout.done /\ ~boxLayout.threw

RECURSIVE SumOfHeights(_)
SumOfHeights(children) ==
    IF children = <<>> THEN 0
    ELSE OrDefault(Head(children).height, NODE_HEIGHT) + SumOfHeights(Tail(children))

\* C18: container size formula.  For n >= 1 children the width returned is
\* the largest child width + 2 * CONTAINER_PADDING and the height is the sum
\* of the child heights + (n - 1) * CONTAINER_CHILD_GAP + 2 * CONTAINER_PADDING;
\* with three children of default size the height is
\* 3 * NODE_HEIGHT + 2 * CONTAINER_CHILD_GAP + 2 * CONTAINER_PADDING.
ContainerSizeFormula ==
    (LaidOut /\ Len(box.childNodes) >= 1)
      => LET n == Len(box.childNodes)
         IN  /\ boxLayout.size.width =
                  MaxOfSet({OrDefault(c.width, NODE_WIDTH) : c \in Range(box.childNodes)})
                    + 2 * CONTAINER_PADDING
             /\ boxLayout.size.height =
                  SumOfHeights(box.childNodes) + (n - 1) * CONTAINER_CHILD_GAP
                    + 2 * CONTAINER_PADDING
             /\ (n = 3 /\ \A c \in Range(box.childNodes) : c.height = 0)
                  => boxLayout.size.height >=
                       3 * NODE_HEIGHT + 2 * CONTAINER_CHILD_GAP + 2 * CONTAINER_PADDING

\* a container of three children of two sizes was laid out
ContainerSizeFormulaWitness ==
    /\ LaidOut
    /\ Len(box.childNodes) = 3
    /\ \E c \in Range(box.childNodes), d \in Range(box.childNodes) :
          c.width # d.width
    /\ boxLayout.size.height > 0

\* C19: empty container.  With no child nodes the call returns no positions
\* and a box of width NODE_WIDTH and height NODE_HEIGHT, and does not throw.
EmptyContainer ==
    (boxLayout.done /\ box.childNodes = <<>>)
      => /\ ~boxLayout.threw
         /\ boxLayout.childPositions = <<>>
         /\ boxLayout.size = [width |-> NODE_WIDTH, height |-> NODE_HEIGHT]

\* the children with no incoming internal edge
BoxRoots == {c.id : c \in {d \in Range(box.childNodes) :
                             ~\E e \in Range(box.childEdges) : e.target = d.id}}

\* the number of edges on a shortest path of internal edges from a root to
\* id, or -1 when no root leads to id
RECURSIVE BoxDistance(_, _, _, _)
BoxDistance(frontier, seen, id, k) ==
    IF id \in frontier THEN k
    ELSE IF frontier = {} THEN -1
    ELSE BoxDistance({e.target : e \in {d \in Range(box.childEdges) :
                                         d.source \in frontier}}
                       \ (seen \cup frontier),
                     seen \cup frontier, id, k + 1)

Distance(id) == BoxDistance(BoxRoots, {}, id, 0)

\* the place of a child in the list given to the call
ListIndex(id) == CHOOSE i \in DOMAIN box.childNodes : box.childNodes[i].id = id

\* C20: container interior column.  Every child is placed at
\* x = CONTAINER_PADDING, the first at y = CONTAINER_PADDING and each next one
\* at the previous y + the previous height + CONTAINER_CHILD_GAP, in the order
\* of a breadth-first traversal of the internal edges from the children with
\* no internal incoming edge (roots in list order, then by distance from the
\* roots); the children the traversal does not reach come after, in list
\* order, which is the order of all children when none is a root.
InteriorColumn ==
    LaidOut
      => LET placed == boxLayout.childPositions
         IN  /\ Len(placed) = Len(box.childNodes)
             /\ {p.id : p \in Range(placed)} = {c.id : c \in Range(box.childNodes)}
             /\ \A i \in DOMAIN placed :
                  /\ placed[i].x = CONTAINER_PADDING
                  /\ placed[i].height =
                       OrDefault(box.childNodes[ListIndex(placed[i].id)].height,
                                 NODE_HEIGHT)
                  /\ placed[i].y =
                       IF i = 1 THEN CONTAINER_PADDING
                       ELSE placed[i - 1].y + placed[i - 1].height
                              + CONTAINER_CHILD_GAP
             /\ \A i \in DOMAIN placed, j \in DOMAIN placed :
                  i < j =>
                    LET di == Distance(placed[i].id)
                        dj == Distance(placed[j].id)
                    IN  /\ dj >= 0 => (di >= 0 /\ di <= dj)
                        /\ (di = -1 /\ dj = -1)
                              => ListIndex(placed[i].id) < ListIndex(placed[j].id)
                        /\ (di = 0 /\ dj = 0)
                              => ListIndex(placed[i].id) < ListIndex(placed[j].id)
             /\ BoxRoots = {} => Ids(placed) = Ids(box.childNodes)

\* three children were placed in an order that is not the order of the list,
\* one of them not reached from a root
InteriorColumnWitness ==
    /\ LaidOut
    /\ Len(boxLayout.childPositions) = 3
    /\ Ids(boxLayout.childPositions) # Ids(box.childNodes)
    /\ \E c \in Range(box.childNodes) : Distance(c.id) = -1
    /\ \E c \in Range(box.childNodes) : Distance(c.id) = 1

(***************************************************************************)
(* addSubGraph of App.vue: every fragment prefixed, the individual nodes   *)
(* and the children of each container laid out by dagre.layout.  The       *)
(* positions dagre.layout returns are an input of the model: the centre of *)
(* the i-th node of g.nodes() is taken from one of DagreLayouts.           *)
(***************************************************************************)

\* String.prototype.includes
StringIncludes(s, w) ==
    \E i \in 1..(Len(s) - Len(w) + 1) : SubSeq(s, i, i + Len(w) - 1) = w

\* s.replace(w, ''): the first occurrence of w removed
StringReplace(s, w) ==
    IF ~StringIncludes(s, w) THEN s
    ELSE LET i == CHOOSE k \in 1..(Len(s) - Len(w) + 1) :
                     /\ SubSeq(s, k, k + Len(w) - 1) = w
                     /\ \A j \in 1..(k - 1) : SubSeq(s, j, j + Len(w) - 1) # w
         IN  SubSeq(s, 1, i - 1) \o SubSeq(s, i + Len(w), Len(s))

MinOfSet(S) == CHOOSE m \in S : \A k \in S : m <= k

\* `subgraph_${this.subGraphCounter++}_`
SubGraphPrefix(counter) == "subgraph_" \o ToString(counter) \o "_"

\* individualNodes: the nodes that are no container's child
IndividualNodes(prefixNodes, prefixContainers) ==
    SelectSeq(prefixNodes, LAMBDA node : ~IsContainerChild(prefixContainers, node.id))

\* the first individual node, whether or not an edge leads to it
RootNodeFirst(individualNodes, prefixEdges) ==
    IF individualNodes = <<>> THEN Undefined ELSE individualNodes[1].id

\* rootNode: the id of the first individual node that is no edge's target, or
\* Undefined
RootNode(individualNodes, prefixEdges) ==
    LET roots == SelectSeq(individualNodes,
                   LAMBDA node : ~\E i \in DOMAIN prefixEdges :
                                     prefixEdges[i].target = node.id)
    IN  IF roots = <<>> THEN Undefined ELSE roots[1].id

\* individualEdges: the edges between two individual nodes
IndividualEdges(individualNodes, prefixEdges) ==
    SelectSeq(prefixEdges,
              LAMBDA edge : /\ HasNode(individualNodes, edge.source)
                            /\ HasNode(individualNodes, edge.target))

\* the layouts dagre.layout may return: a column, and a diagonal away from
\* the origin; x, y is the centre of the first node and dx, dy the step to
\* the next
DagreLayouts ==
    {[x |-> 80, y |-> 24, dx |-> 0, dy |-> 128],
     [x |-> 100, y |-> 50, dx |-> 210, dy |-> 128]}

\* g.setEdge(v, w) adds the nodes v and w the graph does not have
RECURSIVE SetEdgeNodes(_, _)
SetEdgeNodes(gNodes, allEdges) ==
    IF allEdges = <<>> THEN gNodes
    ELSE SetEdgeNodes(SetNode(SetNode(gNodes, Head(allEdges).source),
                              Head(allEdges).target),
                      Tail(allEdges))

\* the place of a node in g.nodes()
IndexOf(gNodes, id) == CHOOSE i \in DOMAIN gNodes : gNodes[i] = id

\* positions.set(nodeId, {x: node.x - NODE_WIDTH / 2, y: node.y - NODE_HEIGHT / 2})
\* for every node of g.nodes(), node.x and node.y being what dagre.layout left
DagrePositions(gNodes, dagre) ==
    [id \in Range(gNodes) |->
        [x |-> dagre.x + (IndexOf(gNodes, id) - 1) * dagre.dx - NODE_WIDTH \div 2,
         y |-> dagre.y + (IndexOf(gNodes, id) - 1) * dagre.dy - NODE_HEIGHT \div 2]]

\* layoutNodesWithDagre(nodes, edges): a map from id to top-left position
layoutNodesWithDagre(someNodes, someEdges, dagre) ==
    IF Len(someNodes) = 0 THEN <<>>
    ELSE DagrePositions(SetEdgeNodes(SetNodes(<<>>, Ids(someNodes)), someEdges), dagre)

\* layoutContainerChildren(container, allNodes, allEdges) of App.vue.  A node
\* that g.setEdge added has no label, and reading node.x of it throws.
SubLayoutContainerChildren(container, allNodes, allEdges, dagre) ==
    LET childNodes == SelectSeq(allNodes, LAMBDA n : Includes(container.childIds, n.id))
        childEdges == SelectSeq(allEdges,
                        LAMBDA e : /\ Includes(container.childIds, e.source)
                                   /\ Includes(container.childIds, e.target))
        Bounded(positions, minX, maxX, minY, maxY) ==
            [threw |-> FALSE,
             positions |-> [id \in DOMAIN positions |->
                              [x |-> positions[id].x - minX + CONTAINER_PADDING,
                               y |-> positions[id].y - minY + CONTAINER_PADDING]],
             size |-> [width |-> (maxX - minX) + (CONTAINER_PADDING * 2),
                       height |-> (maxY - minY) + (CONTAINER_PADDING * 2)]]
        Extract(positions) ==
            Bounded(positions,
                    MinOfSet({positions[id].x : id \in DOMAIN positions}),
                    MaxOfSet({positions[id].x + NODE_WIDTH : id \in DOMAIN positions}),
                    MinOfSet({positions[id].y : id \in DOMAIN positions}),
                    MaxOfSet({positions[id].y + NODE_HEIGHT : id \in DOMAIN positions}))
        Laid(gNodes) ==
            IF \E i \in DOMAIN gNodes : ~HasNode(childNodes, gNodes[i])
              THEN [threw |-> TRUE, positions |-> <<>>,
                    size |-> [width |-> 0, height |-> 0]]
              ELSE Extract(DagrePositions(gNodes, dagre))
    IN  IF Len(childNodes) = 0
          THEN [threw |-> FALSE, positions |-> <<>>,
                size |-> [width |-> NODE_WIDTH, height |-> NODE_HEIGHT]]
          ELSE Laid(SetEdgeNodes(SetNodes(<<>>, Ids(childNodes)), childEdges))

\* getMaxY() with the records' tops in the place of their bottom edges
getMaxYTops(existing) ==
    IF Len(existing) = 0 THEN 0
    ELSE MaxOfSet({n.y : n \in Range(TopLevel(existing))} \cup {0})

\* getMaxY(): the lowest bottom edge of the top-level records
getMaxY(existing) ==
    IF Len(existing) = 0 THEN 0
    ELSE MaxOfSet({n.y + OrDefault(n.height, NODE_HEIGHT) :
                     n \in Range(TopLevel(existing))} \cup {0})

\* getMaxX(): the rightmost right edge of the top-level records, 0 without any
getMaxX(existing) ==
    IF Len(existing) = 0 \/ TopLevel(existing) = <<>> THEN 0
    ELSE MaxOfSet({n.x + OrDefault(n.width, NODE_WIDTH) :
                     n \in Range(TopLevel(existing))})

\* calculateSubGraphOffset(individualPositions, failureLayout, successLayout);
\* individualPositions has the root node's position, so it is not empty
calculateSubGraphOffset(individualPositions, existing) ==
    LET minX == MinOfSet({individualPositions[id].x : id \in DOMAIN individualPositions})
        minY == MinOfSet({individualPositions[id].y : id \in DOMAIN individualPositions})
        existingMaxY == getMaxY(existing)
        existingMaxX == getMaxX(existing)
    IN  [x |-> IF existingMaxX > 0 THEN existingMaxX + NODE_GAP - minX ELSE 0 - minX,
         y |-> IF existingMaxY > 0 THEN existingMaxY + RANK_GAP - minY
               ELSE IF minY < 0 THEN 0 - minY ELSE 0]

\* getGraphLeftX(individualPositions, offset)
getGraphLeftX(individualPositions) ==
    IF DOMAIN individualPositions = {} THEN 0
    ELSE MinOfSet({individualPositions[id].x : id \in DOMAIN individualPositions})

\* positionFailureContainer(individualPositions, rootNode, failureLayout, offset)
positionFailureContainer(individualPositions, rootNode, failureLayout, offset) ==
    [x |-> getGraphLeftX(individualPositions) - failureLayout.size.width - NODE_GAP
             + offset.x,
     y |-> individualPositions[rootNode].y + NODE_HEIGHT + RANK_GAP + offset.y]

\* positionSuccessContainer(...); failure is [found, pos, layout]
positionSuccessContainer(individualPositions, rootNode, offset, failure) ==
    LET graphRightX ==
            MaxOfSet({individualPositions[id].x + offset.x + NODE_WIDTH :
                        id \in DOMAIN individualPositions})
        failureRightX == failure.pos.x + failure.layout.size.width
    IN  [x |-> IF failure.found /\ failureRightX > graphRightX + NODE_GAP
                 THEN failureRightX + NODE_GAP
                 ELSE graphRightX + NODE_GAP,
         y |-> individualPositions[rootNode].y + NODE_HEIGHT + RANK_GAP + offset.y]

\* prefixContainers.find(c => c.id.includes(word)): [found, container]
FindContainerIncluding(prefixContainers, word) ==
    LET found == SelectSeq(prefixContainers, LAMBDA c : StringIncludes(c.id, word))
    IN  IF found = <<>> THEN [found |-> FALSE, container |-> C(Undefined, <<>>)]
        ELSE [found |-> TRUE, container |-> found[1]]

\* individualNodes.forEach of lines 127-143
RECURSIVE AddIndividualNodes(_, _, _, _)
AddIndividualNodes(individualNodes, flowNodes, individualPositions, offset) ==
    IF individualNodes = <<>> THEN flowNodes
    ELSE LET id == Head(individualNodes).id
         IN  AddIndividualNodes(Tail(individualNodes),
               IF id \in DOMAIN individualPositions
                 THEN Append(flowNodes,
                        NodeRecord(id, [x |-> individualPositions[id].x + offset.x,
                                        y |-> individualPositions[id].y + offset.y],
                                   NODE_WIDTH, NODE_HEIGHT))
                 ELSE flowNodes,
               individualPositions, offset)

\* container.childIds.forEach of lines 167-183 and 208-224
RECURSIVE AddContainerChildren(_, _, _, _)
AddContainerChildren(childIds, flowNodes, positions, containerId) ==
    IF childIds = <<>> THEN flowNodes
    ELSE AddContainerChildren(Tail(childIds),
           IF Head(childIds) \in DOMAIN positions
             THEN Append(flowNodes,
                    ChildRecord(Head(childIds), positions[Head(childIds)], containerId))
             ELSE flowNodes,
           positions, containerId)

\* lines 146-184 and 187-225: the container record and its children, when the
\* container was found; found is [found, container, pos, layout]
AddContainer(flowNodes, found) ==
    IF found.found
      THEN AddContainerChildren(found.container.childIds,
             Append(flowNodes,
                    ContainerRecord(found.container.id, found.pos, found.layout.size)),
             found.layout.positions, found.container.id)
      ELSE flowNodes

\* flowNodes.some(n => n.id === id)
Exists(flowNodes, id) == \E i \in DOMAIN flowNodes : flowNodes[i].id = id

\* flowNodes.find(n => n.id === id).parentNode
ParentOf(flowNodes, id) ==
    flowNodes[CHOOSE i \in DOMAIN flowNodes :
                /\ flowNodes[i].id = id
                /\ \A j \in DOMAIN flowNodes : flowNodes[j].id = id => i <= j].parentNode

\* no edge of the fragment taken as explicit
HasExplicitEdgeNever(newEdges, edge, prefix) == FALSE

\* hasExplicitEdge of lines 244-248
HasExplicitEdge(newEdges, edge, prefix) ==
    \E i \in DOMAIN newEdges :
        /\ newEdges[i].source = StringReplace(edge.source, prefix)
        /\ newEdges[i].target = StringReplace(edge.target, prefix)

\* prefixEdges.forEach of lines 229-262
RECURSIVE SubAddEdges(_, _, _, _, _)
SubAddEdges(prefixEdges, flowEdges, flowNodes, newEdges, prefix) ==
    IF prefixEdges = <<>> THEN flowEdges
    ELSE LET edge == Head(prefixEdges)
             record == EdgeRecord(edge.source, edge.target)
             bothExist == Exists(flowNodes, edge.source) /\ Exists(flowNodes, edge.target)
             suppressed ==
                 /\ ParentOf(flowNodes, edge.source) # ""
                 /\ ParentOf(flowNodes, edge.target) # ""
                 /\ ParentOf(flowNodes, edge.source) = ParentOf(flowNodes, edge.target)
                 /\ ~HasExplicitEdge(newEdges, edge, prefix)
         IN  SubAddEdges(Tail(prefixEdges),
               IF /\ bothExist
                  /\ ~suppressed
                  /\ record.id \notin {e.id : e \in Range(flowEdges)}
                 THEN Append(flowEdges, record)
                 ELSE flowEdges,
               flowNodes, newEdges, prefix)

NoLayout == [threw |-> FALSE, positions |-> <<>>, size |-> [width |-> 0, height |-> 0]]

\* one call of addSubGraph(graphData) with the prefix of the counter on the
\* canvas (existing, existingEdges); dagre is the layout dagre.layout returns
\* for the individual nodes, the failure container and the success container.
\* noRoot is the return of line 85, threw an exception that leaves the call
\* before the assignment of lines 264-265.
addSubGraph(graphData, prefix, existing, existingEdges, dagre) ==
    LET prefixNodes == PrefixNodes(graphData.nodes, prefix)
        prefixEdges == PrefixEdges(graphData.edges, prefix)
        prefixContainers == PrefixContainers(graphData.containers, prefix)
        individualNodes == IndividualNodes(prefixNodes, prefixContainers)
        failureContainer == FindContainerIncluding(prefixContainers, "failure")
        successContainer == FindContainerIncluding(prefixContainers, "success")
        Unchanged(noRoot, threw) ==
            [noRoot |-> noRoot, threw |-> threw, nodes |-> existing,
             edges |-> existingEdges]
        Emit(flowNodes) ==
            [noRoot |-> FALSE, threw |-> FALSE, nodes |-> flowNodes,
             edges |-> SubAddEdges(prefixEdges, existingEdges, flowNodes,
                                   graphData.edges, prefix)]
        Build(rootNode, positions, offset, failure, successLayout) ==
            Emit(AddContainer(
                   AddContainer(
                     AddIndividualNodes(individualNodes, existing, positions, offset),
                     failure),
                   [found |-> successContainer.found,
                    container |-> successContainer.container,
                    pos |-> positionSuccessContainer(positions, rootNode, offset,
                                                     failure),
                    layout |-> successLayout]))
        Place(rootNode, positions, offset, failureLayout, successLayout) ==
            Build(rootNode, positions, offset,
                  [found |-> failureContainer.found,
                   container |-> failureContainer.container,
                   pos |-> positionFailureContainer(positions, rootNode,
                                                    failureLayout, offset),
                   layout |-> failureLayout],
                  successLayout)
        Laid(rootNode, positions, failureLayout, successLayout) ==
            IF failureLayout.threw \/ successLayout.threw
              THEN Unchanged(FALSE, TRUE)
              ELSE Place(rootNode, positions,
                         calculateSubGraphOffset(positions, existing),
                         failureLayout, successLayout)
        Rooted(rootNode) ==
            IF rootNode = Undefined THEN Unchanged(TRUE, FALSE)
            ELSE Laid(rootNode,
                      layoutNodesWithDagre(individualNodes,
                        IndividualEdges(individualNodes, prefixEdges),
                        dagre.individual),
                      IF failureContainer.found
                        THEN SubLayoutContainerChildren(failureContainer.container,
                               prefixNodes, prefixEdges, dagre.failure)
                        ELSE NoLayout,
                      IF successContainer.found
                        THEN SubLayoutContainerChildren(successContainer.container,
                               prefixNodes, prefixEdges, dagre.success)
                        ELSE NoLayout)
    IN  Rooted(RootNode(individualNodes, prefixEdges))

MaxSubGraphs == 2

\* initialGraphData of data.js
DataIds == <<"A", "B", "C", "D", "E", "F", "G", "H", "I", "J", "K", "L", "M", "N">>

dataInitialGraphData ==
    [nodes |-> [i \in 1..Len(DataIds) |-> NS(DataIds[i], NODE_WIDTH, NODE_HEIGHT)],
     edges |-> <<E("A", "B"), E("A", "C"), E("C", "D"), E("D", "E"), E("A", "F"),
                 E("F", "G"), E("G", "H"), E("G", "L"), E("A", "I"), E("I", "J"),
                 E("I", "K"), E("I", "M"), E("I", "N")>>,
     containers |-> <<C("success", <<"C", "D", "E">>),
                      C("failure", <<"F", "G", "H", "L">>)>>]

\* the fragments a caller passes to addSubGraph: a root with the container
\* success, a cycle without a root, a container alone, a container of another
\* name, both containers, an empty container, an undeclared id among a
\* container's children, a container leading to an individual node, and a
\* container whose id holds both words
SubGraphs ==
    << [nodes |-> <<N("A"), N("C"), N("D"), N("E")>>,
        edges |-> <<E("A", "C"), E("C", "D"), E("D", "E")>>,
        containers |-> <<C("success", <<"C", "D", "E">>)>>],
       [nodes |-> <<N("g"), N("h")>>,
        edges |-> <<E("g", "h"), E("h", "g")>>,
        containers |-> <<>>],
       [nodes |-> <<N("c"), N("d")>>,
        edges |-> <<E("c", "d")>>,
        containers |-> <<C("success", <<"c", "d">>)>>],
       [nodes |-> <<N("a"), N("c"), N("d")>>,
        edges |-> <<E("a", "c"), E("c", "d")>>,
        containers |-> <<C("X", <<"c", "d">>)>>],
       [nodes |-> <<N("a"), N("b"), N("f"), N("s"), N("t")>>,
        edges |-> <<E("a", "b"), E("a", "f"), E("a", "s"), E("s", "t")>>,
        containers |-> <<C("failure", <<"f">>), C("success", <<"s", "t">>)>>],
       [nodes |-> <<N("a")>>,
        edges |-> <<>>,
        containers |-> <<C("success", <<>>)>>],
       [nodes |-> <<N("a"), N("c")>>,
        edges |-> <<E("a", "c"), E("c", "z")>>,
        containers |-> <<C("success", <<"c", "z">>)>>],
       [nodes |-> <<N("c"), N("b")>>,
        edges |-> <<E("c", "b")>>,
        containers |-> <<C("success", <<"c">>)>>],
       [nodes |-> <<N("a"), N("c")>>,
        edges |-> <<E("a", "c")>>,
        containers |-> <<C("failure_success", <<"c">>)>>] >>

\* what dagre.layout returns in one call of addSubGraph, for each of its
\* three graphs
DagreChoices ==
    [individual : DagreLayouts, failure : DagreLayouts, success : DagreLayouts]

\* the record of one call in calls
SubGraphCall(frag, prefix, r) ==
    [frag |-> frag, prefix |-> prefix, explicit |-> FALSE, threw |-> r.threw,
     noRoot |-> r.noRoot]

\* count calls of addSubGraph(graphData) one after the other, from the canvas
\* and the counter of run: run is [nodes, edges, counter, calls]
RECURSIVE Repeat(_, _, _, _, _)
Repeat(count, frag, graphData, run, dagre) ==
    IF count = 0 THEN run
    ELSE LET Then(r) ==
                 Repeat(count - 1, frag, graphData,
                        [nodes |-> r.nodes, edges |-> r.edges,
                         counter |-> run.counter + 1,
                         calls |-> Append(run.calls,
                                     SubGraphCall(frag, SubGraphPrefix(run.counter), r))],
                        dagre)
         IN  Then(addSubGraph(graphData, SubGraphPrefix(run.counter), run.nodes,
                              run.edges, dagre))

\* the effect of count calls of addSubGraph(graphData) on the state
SubGraphCalls(count, frag, graphData, dagre) ==
    LET Assign(run) ==
            /\ nodes' = run.nodes
            /\ edges' = run.edges
            /\ subGraphCounter' = run.counter
            /\ calls' = run.calls
            /\ last' = [threw |-> run.calls[Len(run.calls)].threw,
                        noRoot |-> run.calls[Len(run.calls)].noRoot,
                        existingNodes |-> nodes, existingEdges |-> edges]
    IN  /\ Assign(Repeat(count, frag, graphData,
                         [nodes |-> nodes, edges |-> edges,
                          counter |-> subGraphCounter, calls |-> calls],
                         dagre))
        /\ UNCHANGED <<graphInstanceCounter, graph, ranked, box, boxLayout, traversal>>

\* mounted(): four calls of this.addSubGraph(initialGraphData); dagre.layout
\* is given the same graphs in each and returns the same layouts
Mounted(dagre) ==
    /\ calls = <<>>
    /\ SubGraphCalls(4, 0, dataInitialGraphData, dagre)

\* this.addSubGraph(graphData)
AddSubGraph(f, dagre) ==
    /\ Cardinality({i \in DOMAIN calls : calls[i].frag # 0}) < MaxSubGraphs
    /\ SubGraphCalls(1, f, SubGraphs[f], dagre)

NextSubGraph ==
    \/ \E dagre \in DagreChoices : Mounted(dagre)
    \/ \E f \in DOMAIN SubGraphs, dagre \in DagreChoices : AddSubGraph(f, dagre)

SpecSubGraph == Init /\ [][NextSubGraph]_vars

(***************************************************************************)
(* Properties of addSubGraph                                               *)
(***************************************************************************)

\* the fragment a call of addSubGraph was given
SubFragmentOf(frag) == IF frag = 0 THEN dataInitialGraphData ELSE SubGraphs[frag]

\* the top-level elements of a fragment that are the target of no edge, an
\* edge into a child counting as an edge into its container
ZeroIncoming(fragment) ==
    {id \in TopIds(fragment) :
        ~\E e \in Range(fragment.edges) : Collapse(fragment.containers, e.target) = id}

NonEmpty(fragment) == fragment.nodes # <<>> \/ fragment.containers # <<>>

\* the latest call of addSubGraph built its records and assigned the lists
Inserted == Len(calls) > 0 /\ ~LastCall.noRoot /\ ~LastCall.threw

\* C12: a missing root aborts without mutation.  When the fragment is not
\* empty and none of its top-level elements has zero incoming edges, the call
\* returns at the missing root and the nodes list and the edges list are the
\* lists of before the call.
MissingRootAborts ==
    (/\ Len(calls) > 0
     /\ NonEmpty(SubFragmentOf(LastCall.frag))
     /\ ZeroIncoming(SubFragmentOf(LastCall.frag)) = {})
      => /\ LastCall.noRoot
         /\ nodes = last.existingNodes
         /\ edges = last.existingEdges

\* a fragment without a root was given to a call on a canvas with records
MissingRootAbortsWitness ==
    /\ Len(calls) >= 2
    /\ ZeroIncoming(SubFragmentOf(LastCall.frag)) = {}
    /\ LastCall.noRoot
    /\ Len(last.existingNodes) > 0
    /\ Len(last.existingEdges) > 0

\* C13: an insertion is abandoned only for a missing root.  A call that
\* returns at the missing root was given a fragment none of whose top-level
\* elements, containers among them, has zero incoming edges.
AbandonedOnlyWithoutRoot ==
    (Len(calls) > 0 /\ LastCall.noRoot)
      => /\ NonEmpty(SubFragmentOf(LastCall.frag))
         /\ ZeroIncoming(SubFragmentOf(LastCall.frag)) = {}

\* C14: every container of a fragment is emitted.  After a call inserted a
\* fragment the canvas has one container record for every container of the
\* fragment and, for every child the container declares, one record with
\* parentNode the container.
EveryContainerEmitted ==
    Inserted
      => \A c \in Range(SubFragmentOf(LastCall.frag).containers) :
            /\ Cardinality({i \in DOMAIN nodes :
                              /\ nodes[i].id = LastCall.prefix \o c.id
                              /\ nodes[i].border}) = 1
            /\ \A child \in Range(c.childIds) :
                  Cardinality({i \in DOMAIN nodes :
                                 /\ nodes[i].id = LastCall.prefix \o child
                                 /\ nodes[i].parentNode = LastCall.prefix \o c.id}) = 1

\* the edge record from one id to another is on the canvas
HasEdgeRecord(source, target) ==
    \E e \in Range(edges) :
        /\ e.source = source /\ e.target = target
        /\ e.id = "edge-" \o source \o "-" \o target

TopLevelElements ==
    {n.id : n \in {m \in Range(graph.allNodes) :
                     ~IsContainerChild(graph.containers, m.id)}}
      \cup {c.id : c \in Range(graph.containers)}

\* the collapsed edges of the graph given to computeOrdering: an endpoint
\* that is a container child stands for its container, and an edge from an
\* element to itself is no edge
CollapsedEdges ==
    {p \in {<<Collapse(graph.containers, e.source), Collapse(graph.containers, e.target)>> :
              e \in Range(graph.allEdges)} :
        /\ p[1] \in TopLevelElements
        /\ p[2] \in TopLevelElements
        /\ p[1] # p[2]}

\* the top-level elements without an incoming collapsed edge
CollapsedRoots == {id \in TopLevelElements : ~\E p \in CollapsedEdges : p[2] = id}

\* the elements a directed path of collapsed edges from an element of S
\* leads to
RECURSIVE CollapsedReach(_)
CollapsedReach(S) ==
    LET next == S \cup {p[2] : p \in {q \in CollapsedEdges : q[1] \in S}}
    IN  IF next = S THEN S ELSE CollapsedReach(next)

\* C21: rank totality.  computeOrdering gives one rank, an integer >= 0, to
\* every top-level element and to nothing else, so none to a container
\* child; an element without an incoming collapsed edge has rank 0, an
\* element no root reaches has rank 0, and the rank map of an empty input is
\* empty.
RankTotality ==
    ranked.done
      => /\ DOMAIN ranked.ordering = TopLevelElements
         /\ Range(ranked.gNodes) = TopLevelElements
         /\ Cardinality(Range(ranked.gNodes)) = Len(ranked.gNodes)
         /\ \A id \in DOMAIN ranked.ordering : ranked.ordering[id] \in Nat
         /\ \A id \in {n.id : n \in Range(graph.allNodes)} :
               IsContainerChild(graph.containers, id) => id \notin DOMAIN ranked.ordering
         /\ \A id \in CollapsedRoots : ranked.ordering[id] = 0
         /\ \A id \in TopLevelElements \ CollapsedReach(CollapsedRoots) :
               ranked.ordering[id] = 0
         /\ (graph.allNodes = <<>> /\ graph.containers = <<>>)
               => ranked.ordering = <<>>

\* a ranked graph with a container and its child, a root, an element of
\* rank >= 1 and an element no root reaches
RankTotalityWitness ==
    /\ ranked.done
    /\ \E c \in Range(graph.containers) : Len(c.childIds) >= 1
    /\ CollapsedRoots # {}
    /\ TopLevelElements \ CollapsedReach(CollapsedRoots) # {}
    /\ \E id \in DOMAIN ranked.ordering : ranked.ordering[id] >= 1

\* computeOrdering was given the empty graph and returned
RankTotalityEmptyWitness == ranked.done /\ graph = NoGraph

(***************************************************************************)
(* The two breadth-first traversals, one loop iteration per step: the      *)
(* rank assignment of computeOrdering (bfsFromRoot and the two loops over  *)
(* g.nodes()) and the child ordering of layoutContainerChildren            *)
(***************************************************************************)

\* the most edges of a graph or a container whose traversal is followed
MaxTraversalEdges == 3

\* the graphs with self-loops and cycles among their edges
TraversalGraphs == {g \in OrderingGraphs : Len(g.allEdges) <= MaxTraversalEdges}

\* the containers with children of the default size
TraversalBoxes ==
    {b \in [childNodes : BoxChildLists, childEdges : BoxEdgeLists] :
        /\ Len(b.childEdges) <= MaxTraversalEdges
        /\ \A i \in DOMAIN b.childNodes : b.childNodes[i].width = 0}

\* the number of times ranks.set (childOrder.set) was called with a key
SetCount(sets, id) == IF id \in DOMAIN sets THEN sets[id] ELSE 0

CountSet(sets, id) == (id :> (SetCount(sets, id) + 1)) @@ sets

\* head is not advanced
NextHeadStuck(head) == head

\* head++
NextHead(head) == head + 1

\* the state before the first allNodeIds.forEach of computeOrdering:
\* allNodeIds is g.nodes() and the edges are g.edges()
OrderingStart(g) ==
    [NoRun EXCEPT !.kind = "ordering", !.pc = "roots", !.i = 1,
                  !.allNodeIds = GraphNodes(g.allNodes, g.containers),
                  !.gEdges = GraphEdges(g.allNodes, g.allEdges, g.containers)]

\* the state before the while loop of layoutContainerChildren: the queue
\* holds the root children; without edges there is no traversal
ChildrenStart(b) ==
    IF Len(b.childEdges) > 0
      THEN [NoRun EXCEPT !.kind = "children", !.pc = "bfs",
              !.queue = Ids(SelectSeq(b.childNodes,
                              LAMBDA child : ~\E i \in DOMAIN b.childEdges :
                                                 b.childEdges[i].target = child.id))]
      ELSE [NoRun EXCEPT !.kind = "children", !.pc = "done"]

Frame ==
    UNCHANGED <<nodes, edges, graphInstanceCounter, subGraphCounter, calls, last,
                graph, ranked, box, boxLayout>>

\* computeOrdering is called: ranks and visited are empty (lines 102-104)
StartOrdering ==
    /\ traversal.kind = "none"
    /\ \E g \in TraversalGraphs : graph' = g /\ traversal' = OrderingStart(g)
    /\ UNCHANGED <<nodes, edges, graphInstanceCounter, subGraphCounter, calls, last,
                   ranked, box, boxLayout>>

\* layoutContainerChildren is called: childOrder and visited are empty and
\* the queue holds the root children (lines 189-200)
StartChildren ==
    /\ traversal.kind = "none"
    /\ \E b \in TraversalBoxes : box' = b /\ traversal' = ChildrenStart(b)
    /\ UNCHANGED <<nodes, edges, graphInstanceCounter, subGraphCounter, calls, last,
                   graph, ranked, boxLayout>>

\* one iteration of the allNodeIds.forEach of lines 136-141: bfsFromRoot is
\* entered (lines 107-111) at an unvisited element without incoming edge
RootsStep ==
    /\ traversal.kind = "ordering" /\ traversal.pc = "roots"
    /\ traversal' = IF traversal.i > Len(traversal.allNodeIds)
                THEN [traversal EXCEPT !.pc = "rest", !.i = 1]
                ELSE IF /\ ~Includes(traversal.visited, traversal.allNodeIds[traversal.i])
                        /\ traversal.allNodeIds[traversal.i] \notin HasIncoming(traversal.gEdges)
                  THEN [traversal EXCEPT
                          !.pc = "bfs",
                          !.queue = <<[id |-> traversal.allNodeIds[traversal.i], rank |-> 0]>>,
                          !.head = 1,
                          !.visited = Append(traversal.visited, traversal.allNodeIds[traversal.i]),
                          !.ranks = (traversal.allNodeIds[traversal.i] :> 0) @@ traversal.ranks,
                          !.sets = CountSet(traversal.sets, traversal.allNodeIds[traversal.i])]
                  ELSE [traversal EXCEPT !.i = traversal.i + 1]
    /\ Frame

\* const { id: nodeId, rank } = queue[head++] and g.outEdges(nodeId)
Dequeue ==
    /\ traversal.kind = "ordering" /\ traversal.pc = "bfs"
    /\ traversal.out = <<>>
    /\ traversal.head <= Len(traversal.queue)
    /\ traversal' = [traversal EXCEPT !.rank = traversal.queue[traversal.head].rank,
                          !.out = OutEdges(traversal.gEdges, traversal.queue[traversal.head].id),
                          !.head = NextHead(traversal.head)]
    /\ Frame

\* one iteration of the forEach of lines 117-125
VisitEdge ==
    /\ traversal.kind = "ordering" /\ traversal.pc = "bfs"
    /\ traversal.out # <<>>
    /\ traversal' = IF ~Includes(traversal.visited, Head(traversal.out).w)
                THEN [traversal EXCEPT
                        !.out = Tail(traversal.out),
                        !.visited = Append(traversal.visited, Head(traversal.out).w),
                        !.ranks = (Head(traversal.out).w :> (traversal.rank + 1))
                                    @@ traversal.ranks,
                        !.sets = CountSet(traversal.sets, Head(traversal.out).w),
                        !.queue = Append(traversal.queue, [id |-> Head(traversal.out).w,
                                                     rank |-> traversal.rank + 1])]
                ELSE [traversal EXCEPT !.out = Tail(traversal.out)]
    /\ Frame

\* head < queue.length is false: bfsFromRoot returns to the forEach
BfsReturn ==
    /\ traversal.kind = "ordering" /\ traversal.pc = "bfs"
    /\ traversal.out = <<>>
    /\ traversal.head > Len(traversal.queue)
    /\ traversal' = [traversal EXCEPT !.pc = "roots", !.i = traversal.i + 1,
                                      !.queue = <<>>, !.head = 0]
    /\ Frame

\* one iteration of the allNodeIds.forEach of lines 144-150
RestStep ==
    /\ traversal.kind = "ordering" /\ traversal.pc = "rest"
    /\ traversal' = IF traversal.i > Len(traversal.allNodeIds)
                THEN [traversal EXCEPT !.pc = "done", !.i = 0]
                ELSE IF ~Includes(traversal.visited, traversal.allNodeIds[traversal.i])
                  THEN [traversal EXCEPT
                          !.i = traversal.i + 1,
                          !.visited = Append(traversal.visited, traversal.allNodeIds[traversal.i]),
                          !.ranks = (traversal.allNodeIds[traversal.i] :> 0) @@ traversal.ranks,
                          !.sets = CountSet(traversal.sets, traversal.allNodeIds[traversal.i])]
                  ELSE [traversal EXCEPT !.i = traversal.i + 1]
    /\ Frame

\* const current = queue.shift() and lines 204-210 of layoutContainerChildren
Shift ==
    /\ traversal.kind = "children" /\ traversal.pc = "bfs"
    /\ traversal.out = <<>>
    /\ traversal.queue # <<>>
    /\ traversal' = IF Head(traversal.queue) = Undefined
                THEN [traversal EXCEPT !.pc = "threw", !.queue = Tail(traversal.queue)]
                ELSE IF Includes(traversal.visited, Head(traversal.queue))
                  THEN [traversal EXCEPT !.queue = Tail(traversal.queue)]
                  ELSE [traversal EXCEPT
                          !.queue = Tail(traversal.queue),
                          !.visited = Append(traversal.visited, Head(traversal.queue)),
                          !.sets = CountSet(traversal.sets, Head(traversal.queue)),
                          !.out = SelectSeq(box.childEdges,
                                     LAMBDA e : e.source = Head(traversal.queue))]
    /\ Frame

\* one iteration of the forEach of lines 212-216
Push ==
    /\ traversal.kind = "children" /\ traversal.pc = "bfs"
    /\ traversal.out # <<>>
    /\ traversal' = IF ~Includes(traversal.visited, Head(traversal.out).target)
                THEN [traversal EXCEPT
                        !.out = Tail(traversal.out),
                        !.queue = Append(traversal.queue,
                                         FindChild(box.childNodes, Head(traversal.out).target))]
                ELSE [traversal EXCEPT !.out = Tail(traversal.out)]
    /\ Frame

\* queue.length > 0 is false
ChildrenDone ==
    /\ traversal.kind = "children" /\ traversal.pc = "bfs"
    /\ traversal.out = <<>>
    /\ traversal.queue = <<>>
    /\ traversal' = [traversal EXCEPT !.pc = "done"]
    /\ Frame

NextTraversal ==
    \/ StartOrdering
    \/ StartChildren
    \/ RootsStep
    \/ Dequeue
    \/ VisitEdge
    \/ BfsReturn
    \/ RestStep
    \/ Shift
    \/ Push
    \/ ChildrenDone

\* the loops are sequential code: an iteration that can traversal does traversal
SpecTraversal == Init /\ [][NextTraversal]_vars /\ WF_vars(NextTraversal)

\* the traversal has ended, by returning or by throwing
Terminated == traversal.pc \in {"done", "threw"}

\* no key was given a rank (an order) twice
AssignedOnce == \A id \in DOMAIN traversal.sets : traversal.sets[id] <= 1

\* the traversal followed step by step ends with what the operators
\* computeOrdering and layoutContainerChildren are built on compute
TraversalAgrees ==
    /\ (traversal.kind = "ordering" /\ traversal.pc = "done")
          => traversal.ranks = computeOrdering(graph.allNodes, graph.allEdges,
                                               graph.containers).ordering
    /\ (traversal.kind = "children" /\ Terminated /\ Len(box.childEdges) > 0)
          => LET Agrees(bfs) ==
                     /\ bfs.threw = (traversal.pc = "threw")
                     /\ bfs.visited = traversal.visited
             IN  Agrees(ChildBfs(ChildrenStart(box).queue, <<>>,
                                 box.childNodes, box.childEdges))

\* C22: traversal termination.  The rank assignment of computeOrdering and
\* the child ordering of layoutContainerChildren come to an end for every
\* graph, with self-loops and directed cycles among them, and on the way no
\* element is given a rank (an order) more than once.
TraversalTerminates ==
    [](AssignedOnce /\ TraversalAgrees) /\ (traversal.kind # "none" ~> Terminated)

\* the rank assignment ended on a graph with a self-loop
SelfLoopTerminatesWitness ==
    /\ traversal.kind = "ordering" /\ traversal.pc = "done"
    /\ \E e \in Range(graph.allEdges) :
          e.source = e.target /\ ~IsContainerChild(graph.containers, e.source)

\* the rank assignment ended on a graph with a directed cycle that a root
\* leads into
TraversalTerminatesWitness ==
    /\ traversal.kind = "ordering" /\ traversal.pc = "done"
    /\ \E e \in Range(traversal.gEdges), f \in Range(traversal.gEdges) :
          /\ e.v = f.w /\ e.w = f.v
          /\ traversal.ranks[e.v] >= 1 /\ traversal.ranks[e.w] >= 1

\* the child ordering ended on a container whose edges have a directed
\* cycle that a root leads into
ChildrenTerminatesWitness ==
    /\ traversal.kind = "children" /\ traversal.pc = "done"
    /\ Len(traversal.visited) = 3
    /\ \E e \in Range(box.childEdges), f \in Range(box.childEdges) :
          e.source = f.target /\ e.target = f.source /\ e.source # e.target

(***************************************************************************)
(* Properties of sequences of insertions                                   *)
(***************************************************************************)

\* the ids the edges of a fragment derive under a prefix
DerivedEdgeIds(fragment, prefix) ==
    {EdgeRecord(prefix \o e.source, prefix \o e.target).id : e \in Range(fragment.edges)}

\* C23: duplicate edges are a no-op.  Every call of addToGraph leaves the
\* edge records of before in place and appends one record for each derived
\* id that was not on the canvas, however often the fragment lists the edge,
\* and none for a derived id that was; after it no two edge records share an
\* id and every edge record has the id 'edge-' + source + '-' + target.
DuplicateEdgesNoOp ==
    [][LET call == calls'[Len(calls')]
           derived == DerivedEdgeIds(FragmentOf(call.frag), call.prefix)
       IN  /\ Len(edges') >= Len(edges)
           /\ SubSeq(edges', 1, Len(edges)) = edges
           /\ call.threw => edges' = edges
           /\ ~call.threw
                => /\ Len(edges') = Len(edges)
                        + Cardinality(derived \ {e.id : e \in Range(edges)})
                   /\ {e.id : e \in Range(edges')}
                        = {e.id : e \in Range(edges)} \cup derived
           /\ \A i \in DOMAIN edges', j \in DOMAIN edges' :
                 edges'[i].id = edges'[j].id => i = j
           /\ \A e \in Range(edges') :
                 e.id = "edge-" \o e.source \o "-" \o e.target]_vars

\* the fragment that lists one edge twice was inserted twice under the same
\* prefix: the canvas has the one edge record of the first listing
DuplicateEdgesNoOpWitness ==
    /\ Len(calls) = 2
    /\ calls[1].prefix = calls[2].prefix
    /\ calls[1].frag = calls[2].frag
    /\ ~calls[1].threw /\ ~calls[2].threw
    /\ \E i \in DOMAIN FragmentOf(calls[2].frag).edges,
          j \in DOMAIN FragmentOf(calls[2].frag).edges :
          i # j /\ FragmentOf(calls[2].frag).edges[i] = FragmentOf(calls[2].frag).edges[j]
    /\ Len(edges) = 1

(***************************************************************************)
(* Either program from its initial state: part_001 with addToGraph, or     *)
(* App.vue with addSubGraph                                                *)
(***************************************************************************)

\* a call of addSubGraph, whose record tells whether the root was missing
IsSubGraphCall(call) == "noRoot" \in DOMAIN call

NextEither ==
    \/ subGraphCounter = 0 /\ Next
    \/ /\ graphInstanceCounter = 0
       /\ \A k \in DOMAIN calls : IsSubGraphCall(calls[k])
       /\ NextSubGraph

SpecEither == Init /\ [][NextEither]_vars

\* the fragment of the k-th call
CallFragment(k) ==
    IF IsSubGraphCall(calls[k]) THEN SubFragmentOf(calls[k].frag)
    ELSE FragmentOf(calls[k].frag)

\* the calls that took their prefix from the counter
AutoCalls == {k \in DOMAIN calls : ~calls[k].explicit}

StartsWith(s, p) == Len(s) >= Len(p) /\ SubSeq(s, 1, Len(p)) = p

\* the ids of the k-th call's fragment under the prefix of the call: node
\* ids, container ids and the ids of container children
PrefixedIds(k) ==
    {calls[k].prefix \o id :
        id \in {n.id : n \in Range(CallFragment(k).nodes)}
               \cup {c.id : c \in Range(CallFragment(k).containers)}
               \cup UNION {Range(c.childIds) : c \in Range(CallFragment(k).containers)}}

\* C24: prefix isolation.  The counters of the prefixes never decrease and
\* a call that takes its prefix from a counter advances it; no two such
\* calls have the same prefix; every node record has the id a call's prefix
\* gives to a node, a container or a container child of its fragment, and
\* every edge record joins the two prefixed endpoints of one call's edge; two
\* such calls have no prefixed id in common, no record carries the prefixes
\* of both, and no edge record goes from an id of one to an id of the other.
PrefixIsolation ==
    /\ [][/\ graphInstanceCounter' >= graphInstanceCounter
          /\ subGraphCounter' >= subGraphCounter
          /\ (Len(calls') > Len(calls) /\ ~calls'[Len(calls')].explicit)
               => graphInstanceCounter' + subGraphCounter'
                    > graphInstanceCounter + subGraphCounter]_vars
    /\ [](/\ \A k \in AutoCalls, l \in AutoCalls :
                k # l
                  => /\ calls[k].prefix # calls[l].prefix
                     /\ PrefixedIds(k) \cap PrefixedIds(l) = {}
                     /\ ~\E n \in Range(nodes) :
                           /\ StartsWith(n.id, calls[k].prefix)
                           /\ StartsWith(n.id, calls[l].prefix)
                     /\ ~\E e \in Range(edges) :
                           /\ StartsWith(e.source, calls[k].prefix)
                           /\ StartsWith(e.target, calls[l].prefix)
          /\ \A n \in Range(nodes) : \E k \in DOMAIN calls : n.id \in PrefixedIds(k)
          /\ \A e \in Range(edges) :
                \E k \in DOMAIN calls :
                   \E d \in Range(CallFragment(k).edges) :
                      /\ e.source = calls[k].prefix \o d.source
                      /\ e.target = calls[k].prefix \o d.target)

\* two calls of addToGraph without a prefix, each of which added node
\* records and an edge record
PrefixIsolationWitness ==
    /\ Len(calls) = 2
    /\ AutoCalls = {1, 2}
    /\ ~IsSubGraphCall(calls[1])
    /\ ~calls[1].threw /\ ~calls[2].threw
    /\ \A k \in {1, 2} :
          /\ \E n \in Range(nodes) : StartsWith(n.id, calls[k].prefix)
          /\ \E e \in Range(edges) : StartsWith(e.source, calls[k].prefix)

\* the four calls of mounted() and two more calls of addSubGraph, the last
\* two of which added node records and an edge record
PrefixIsolationSubGraphWitness ==
    /\ Len(calls) = 6
    /\ IsSubGraphCall(calls[6])
    /\ \A k \in {5, 6} :
          /\ \E n \in Range(nodes) : StartsWith(n.id, calls[k].prefix)
          /\ \E e \in Range(edges) : StartsWith(e.source, calls[k].prefix)

\* C25: rank reproducibility.  The rank computeOrdering gives, during an
\* insertion, to a top-level element that an earlier insertion placed is the
\* rank computeOrdering gave it then.
RankReproducibility ==
    [][\A id \in DOMAIN last.ordering :
          (/\ \E n \in Range(nodes) : n.id = id /\ n.parentNode = ""
           /\ id \in DOMAIN last'.ordering)
            => last'.ordering[id] = last.ordering[id]]_vars


\* the number of collapsed edges on a shortest directed path from an element
\* of the frontier to id, counted from k; -1 when no path leads to id
RECURSIVE CollapsedDistance(_, _, _, _)
CollapsedDistance(frontier, seen, k, id) ==
    IF id \in frontier THEN k
    ELSE LET next == {p[2] : p \in {q \in CollapsedEdges : q[1] \in frontier}} \ seen
         IN  IF next = {} THEN -1
             ELSE CollapsedDistance(next, seen \cup next, k + 1, id)

\* C29: single-root ranks are shortest-path distances.  When exactly one
\* element of the collapsed graph has no incoming edge, the rank of every
\* element that root reaches is the number of edges on a shortest directed
\* path from the root to it.
SingleRootDistances ==
    (ranked.done /\ Cardinality(CollapsedRoots) = 1)
      => \A id \in CollapsedReach(CollapsedRoots) :
            ranked.ordering[id] = CollapsedDistance(CollapsedRoots, CollapsedRoots, 0, id)

\* a ranked single-root graph with an element of rank 2 and an element that
\* paths of two lengths lead to: one of its incoming edges comes from an
\* element of its own rank or a later one
SingleRootDistancesWitness ==
    /\ ranked.done
    /\ Cardinality(CollapsedRoots) = 1
    /\ \E id \in CollapsedReach(CollapsedRoots) : ranked.ordering[id] = 2
    /\ \E p \in CollapsedEdges :
          /\ p[1] \in CollapsedReach(CollapsedRoots)
          /\ ranked.ordering[p[2]] >= 1
          /\ ranked.ordering[p[1]] >= ranked.ordering[p[2]]


(***************************************************************************)
(* Properties of sequences of addSubGraph calls                            *)
(***************************************************************************)

\* C30: node id uniqueness.  After any sequence of addSubGraph calls with
\* fragments whose node ids and container ids are unique within the
\* fragment, no two node records of the canvas have the same id.
NodeIdsUnique ==
    \A i, j \in DOMAIN nodes : nodes[i].id = nodes[j].id => i = j


\* the records the latest call of addSubGraph appended to the nodes list
AddedRecords == SubSeq(nodes, Len(last.existingNodes) + 1, Len(nodes))

\* C28: the sub-graph offset puts new content in free space.  On a canvas
\* with records, whatever positions the layout returns, every top-level
\* record a call adds (an individual node or a container) has its top at or
\* below the lowest bottom edge of the earlier top-level records plus
\* RANK_GAP, so it overlaps none of them; on the empty canvas the leftmost
\* individual node is put at x = 0.
SubGraphOffset ==
    Inserted
      => /\ \A n \in Range(TopLevel(AddedRecords)) :
              \A e \in Range(TopLevel(last.existingNodes)) :
                 /\ n.y >= e.y + e.height + RANK_GAP
                 /\ ~Overlap(n, e)
         /\ last.existingNodes = <<>>
              => \E n \in Range(TopLevel(AddedRecords)) :
                    /\ ~n.border
                    /\ n.x = 0
                    /\ \A m \in Range(TopLevel(AddedRecords)) : ~m.border => m.x >= 0

\* a call on a canvas with individual nodes and containers added individual
\* nodes and the two containers
SubGraphOffsetWitness ==
    /\ Inserted
    /\ \E e \in Range(TopLevel(last.existingNodes)) : e.border
    /\ \E e \in Range(TopLevel(last.existingNodes)) : ~e.border
    /\ \E n \in Range(TopLevel(AddedRecords)) : ~n.border
    /\ \E a, b \in Range(TopLevel(AddedRecords)) : a.border /\ b.border /\ a.id # b.id

\* a call on the empty canvas whose layout put the leftmost individual node
\* away from x = 0
SubGraphOffsetEmptyWitness ==
    /\ Inserted
    /\ Len(calls) = 1
    /\ last.existingNodes = <<>>
    /\ Len(AddedRecords) > 1


(***************************************************************************)
(* addSubGraph of src/src/App.vue, the variant that shares nodes: node and *)
(* edge ids keep their names, only container ids get the prefix, and an    *)
(* edge from a node of the canvas to a new node is led through a temp root *)
(* (lines 607-1358).  A record of this canvas has a type field.  data.js   *)
(* has no secondGraphData and no thirdGraphData, so the calls after the    *)
(* first of mounted() are taken from SharedFragments.                      *)
(***************************************************************************)

\* the most calls of addSubGraph after mounted()'s first
MaxSharedCalls == 2

\* a record of the nodes list with its type
Typed(record, type) == [type |-> type] @@ record

\* sourceNodesToNewNodes of lines 696-704, in insertion order
RECURSIVE SourceNodesToNewNodes(_, _, _)
SourceNodesToNewNodes(prefixEdges, originalExistingNodeIds, found) ==
    IF prefixEdges = <<>> THEN found
    ELSE SourceNodesToNewNodes(Tail(prefixEdges), originalExistingNodeIds,
           IF /\ Head(prefixEdges).source \in originalExistingNodeIds
              /\ Head(prefixEdges).target \notin originalExistingNodeIds
              /\ ~Includes(found, Head(prefixEdges).source)
             THEN Append(found, Head(prefixEdges).source)
             ELSE found)

\* an edge's source left as it is
KeepSource(prefix, sourceId) == sourceId

\* `${prefix}temp_${sourceId}`
TempRootId(prefix, sourceId) == prefix \o "temp_" \o sourceId

\* modifiedEdges after the forEach of lines 707-727; the edge objects are
\* those of prefixEdges, so prefixEdges reads the same afterwards
RECURSIVE ModifiedEdges(_, _, _, _)
ModifiedEdges(sources, someEdges, originalExistingNodeIds, prefix) ==
    IF sources = <<>> THEN someEdges
    ELSE ModifiedEdges(Tail(sources),
           [i \in DOMAIN someEdges |->
              IF /\ someEdges[i].source = Head(sources)
                 /\ someEdges[i].target \notin originalExistingNodeIds
                THEN E(TempRootId(prefix, Head(sources)), someEdges[i].target)
                ELSE someEdges[i]],
           originalExistingNodeIds, prefix)

\* the forEach loops of lines 810-857, 881-902 and 926-947 over ids: st is
\* [nodes, ids], flowNodes and existingNodeIds; a record without parent is an
\* individual node or a temp root, one with a parent a container child
RECURSIVE PushRecords(_, _, _, _, _)
PushRecords(ids, st, positions, parentNode, skipExisting) ==
    IF ids = <<>> THEN st
    ELSE PushRecords(Tail(ids),
           IF (skipExisting /\ Head(ids) \in st.ids) \/ Head(ids) \notin DOMAIN positions
             THEN st
             ELSE [nodes |->
                     Append(st.nodes,
                       IF parentNode = ""
                         THEN Typed(NodeRecord(Head(ids), positions[Head(ids)],
                                               NODE_WIDTH, NODE_HEIGHT), "custom")
                         ELSE Typed(ChildRecord(Head(ids), positions[Head(ids)],
                                                parentNode), "default")),
                   ids |-> st.ids \cup {Head(ids)}],
           positions, parentNode, skipExisting)

\* lines 859-903 and 906-948: the container record and the children the
\* canvas does not have; found is [found, container, pos, layout]
AddSharedContainer(st, found) ==
    IF found.found
      THEN PushRecords(found.container.childIds,
             [nodes |-> Append(st.nodes,
                          Typed(ContainerRecord(found.container.id, found.pos,
                                                found.layout.size), "default")),
              ids |-> st.ids],
             found.layout.positions, found.container.id, TRUE)
      ELSE st

\* flowNodes[sourceNodeIndex].type = 'custom' of lines 956-960
SetCustom(flowNodes, id) ==
    LET sourceNodeIndex ==
            CHOOSE i \in DOMAIN flowNodes :
               /\ flowNodes[i].id = id
               /\ \A j \in DOMAIN flowNodes : flowNodes[j].id = id => i <= j
    IN  [flowNodes EXCEPT ![sourceNodeIndex] = Typed(@, "custom")]

\* tempRootNodes.forEach of lines 951-979: st is [nodes, edges], flowNodes and
\* flowEdges
RECURSIVE AddLinkEdges(_, _, _)
AddLinkEdges(sources, st, prefix) ==
    IF sources = <<>> THEN st
    ELSE AddLinkEdges(Tail(sources),
           IF /\ Exists(st.nodes, Head(sources))
              /\ Exists(st.nodes, TempRootId(prefix, Head(sources)))
             THEN [nodes |-> SetCustom(st.nodes, Head(sources)),
                   edges |-> Append(st.edges,
                               EdgeRecord(Head(sources),
                                          TempRootId(prefix, Head(sources))))]
             ELSE st,
           prefix)

\* modifiedEdges.forEach of lines 989-1042: addedEdgeIds holds the ids of
\* this.edges, of the link edges and of the edges added so far
RECURSIVE SharedAddEdges(_, _, _, _, _)
SharedAddEdges(modifiedEdges, flowEdges, addedEdgeIds, flowNodes, newEdges) ==
    IF modifiedEdges = <<>> THEN flowEdges
    ELSE LET Step(edge, record) ==
                 LET suppressed ==
                         /\ ParentOf(flowNodes, edge.source) # ""
                         /\ ParentOf(flowNodes, edge.target) # ""
                         /\ ParentOf(flowNodes, edge.source) = ParentOf(flowNodes, edge.target)
                         /\ ~Includes(newEdges, edge)
                     added ==
                         /\ record.id \notin addedEdgeIds
                         /\ Exists(flowNodes, edge.source)
                         /\ Exists(flowNodes, edge.target)
                         /\ ~suppressed
                 IN  SharedAddEdges(Tail(modifiedEdges),
                       IF added THEN Append(flowEdges, record) ELSE flowEdges,
                       IF added THEN addedEdgeIds \cup {record.id} ELSE addedEdgeIds,
                       flowNodes, newEdges)
         IN  Step(Head(modifiedEdges),
                  EdgeRecord(Head(modifiedEdges).source, Head(modifiedEdges).target))

\* one call of addSubGraph(graphData) of lines 654-1046 with the prefix of the
\* counter on the canvas (existing, existingEdges); dagre is as in the
\* variant that prefixes every id
addSubGraphShared(graphData, prefix, existing, existingEdges, dagre) ==
    LET prefixNodes == graphData.nodes
        prefixContainers ==
            [i \in DOMAIN graphData.containers |->
                C(prefix \o graphData.containers[i].id, graphData.containers[i].childIds)]
        individualNodes == IndividualNodes(prefixNodes, prefixContainers)
        originalExistingNodeIds == ExistingNodeIds(existing)
        newIndividualNodes ==
            SelectSeq(individualNodes, LAMBDA n : n.id \notin originalExistingNodeIds)
        existingIndividualNodes ==
            SelectSeq(individualNodes, LAMBDA n : n.id \in originalExistingNodeIds)
        sources == SourceNodesToNewNodes(graphData.edges, originalExistingNodeIds, <<>>)
        modifiedEdges ==
            ModifiedEdges(sources, graphData.edges, originalExistingNodeIds, prefix)
        tempRootNodesList == [i \in DOMAIN sources |-> N(TempRootId(prefix, sources[i]))]
        allNodesForLayout == newIndividualNodes \o tempRootNodesList
        failureContainer == FindContainerIncluding(prefixContainers, "failure")
        successContainer == FindContainerIncluding(prefixContainers, "success")
        Unchanged(noRoot, threw) ==
            [noRoot |-> noRoot, threw |-> threw, nodes |-> existing,
             edges |-> existingEdges]
        Emit(st) ==
            [noRoot |-> FALSE, threw |-> FALSE, nodes |-> st.nodes,
             edges |-> SharedAddEdges(modifiedEdges, st.edges,
                        {e.id : e \in Range(existingEdges)}
                          \cup {EdgeRecord(id, TempRootId(prefix, id)).id :
                                  id \in Range(sources)},
                        st.nodes, graphData.edges)]
        Linked(st) ==
            Emit(AddLinkEdges(sources, [nodes |-> st.nodes, edges |-> existingEdges],
                              prefix))
        Shifted(positions, offset) ==
            [id \in DOMAIN positions |->
                [x |-> positions[id].x + offset.x, y |-> positions[id].y + offset.y]]
        Build(rootNode, positions, offset, failure, successLayout) ==
            Linked(AddSharedContainer(
                     AddSharedContainer(
                       PushRecords(Ids(newIndividualNodes),
                         PushRecords(Ids(tempRootNodesList),
                                     [nodes |-> existing, ids |-> originalExistingNodeIds],
                                     Shifted(positions, offset), "", FALSE),
                         Shifted(positions, offset), "", TRUE),
                       failure),
                     [found |-> successContainer.found,
                      container |-> successContainer.container,
                      pos |-> positionSuccessContainer(positions, rootNode, offset,
                                                       failure),
                      layout |-> successLayout]))
        Place(rootNode, positions, offset, failureLayout, successLayout) ==
            Build(rootNode, positions, offset,
                  [found |-> failureContainer.found,
                   container |-> failureContainer.container,
                   pos |-> positionFailureContainer(positions, rootNode,
                                                    failureLayout, offset),
                   layout |-> failureLayout],
                  successLayout)
        ExistingPositions ==
            [id \in {n.id : n \in Range(existingIndividualNodes)} |->
                LET found == CHOOSE i \in DOMAIN existing :
                                /\ existing[i].id = id
                                /\ \A j \in DOMAIN existing : existing[j].id = id => i <= j
                IN  [x |-> existing[found].x, y |-> existing[found].y]]
        Laid(rootNode, positions, failureLayout, successLayout) ==
            IF failureLayout.threw \/ successLayout.threw
              THEN Unchanged(FALSE, TRUE)
              ELSE Place(rootNode, positions,
                         calculateSubGraphOffset(positions, existing),
                         failureLayout, successLayout)
        Rooted(rootNode) ==
            IF rootNode = Undefined THEN Unchanged(TRUE, FALSE)
            ELSE Laid(rootNode,
                      ExistingPositions @@
                        layoutNodesWithDagre(allNodesForLayout,
                          IndividualEdges(allNodesForLayout, modifiedEdges),
                          dagre.individual),
                      IF failureContainer.found
                        THEN SubLayoutContainerChildren(failureContainer.container,
                               prefixNodes, modifiedEdges, dagre.failure)
                        ELSE NoLayout,
                      IF successContainer.found
                        THEN SubLayoutContainerChildren(successContainer.container,
                               prefixNodes, modifiedEdges, dagre.success)
                        ELSE NoLayout)
    IN  Rooted(IF tempRootNodesList # <<>> THEN tempRootNodesList[1].id
               ELSE IF RootNode(allNodesForLayout, modifiedEdges) # Undefined
                      THEN RootNode(allNodesForLayout, modifiedEdges)
               ELSE IF allNodesForLayout # <<>> THEN allNodesForLayout[1].id
               ELSE Undefined)


\* the fragments a caller passes to this addSubGraph after initialGraphData:
\* nodes hung on an individual node, a node hung on a container child, two
\* sources with a target in common and a container of new children, an edge
\* to an undeclared id, a fragment apart, a declared node of the canvas with
\* an edge back to the canvas, a container alone, and nodes hung on the
\* canvas with a container that has an undeclared child
SharedFragments ==
    << [nodes |-> <<N("P"), N("Q")>>,
        edges |-> <<E("B", "P"), E("P", "Q")>>,
        containers |-> <<>>],
       [nodes |-> <<N("P")>>,
        edges |-> <<E("D", "P")>>,
        containers |-> <<>>],
       [nodes |-> <<N("R"), N("S"), N("T")>>,
        edges |-> <<E("J", "R"), E("K", "R"), E("J", "S"), E("S", "T"), E("A", "B")>>,
        containers |-> <<C("success", <<"S", "T">>)>>],
       [nodes |-> <<>>,
        edges |-> <<E("N", "z")>>,
        containers |-> <<>>],
       [nodes |-> <<N("a"), N("b")>>,
        edges |-> <<E("a", "b")>>,
        containers |-> <<>>],
       [nodes |-> <<N("B"), N("V")>>,
        edges |-> <<E("B", "V"), E("V", "A")>>,
        containers |-> <<>>],
       [nodes |-> <<N("s")>>,
        edges |-> <<>>,
        containers |-> <<C("success", <<"s">>)>>],
       [nodes |-> <<N("r"), N("f")>>,
        edges |-> <<E("B", "r"), E("r", "f"), E("f", "z")>>,
        containers |-> <<C("failure", <<"f", "z">>)>>] >>

\* the fragment a call of this addSubGraph was given
SharedFragmentOf(frag) == IF frag = 0 THEN dataInitialGraphData ELSE SharedFragments[frag]

\* the effect of one call of addSubGraph(graphData) on the state
SharedCall(frag, dagre) ==
    LET Assign(r) ==
            /\ nodes' = r.nodes
            /\ edges' = r.edges
            /\ subGraphCounter' = subGraphCounter + 1
            /\ calls' = Append(calls,
                          SubGraphCall(frag, SubGraphPrefix(subGraphCounter), r))
            /\ last' = [threw |-> r.threw, noRoot |-> r.noRoot,
                        existingNodes |-> nodes, existingEdges |-> edges]
    IN  /\ Assign(addSubGraphShared(SharedFragmentOf(frag),
                                    SubGraphPrefix(subGraphCounter), nodes, edges, dagre))
        /\ UNCHANGED <<graphInstanceCounter, graph, ranked, box, boxLayout, traversal>>

\* mounted(): this.addSubGraph(initialGraphData)
MountedShared(dagre) ==
    /\ calls = <<>>
    /\ SharedCall(0, dagre)

\* this.addSubGraph(graphData)
AddSubGraphShared(f, dagre) ==
    /\ Cardinality({i \in DOMAIN calls : calls[i].frag # 0}) < MaxSharedCalls
    /\ SharedCall(f, dagre)

NextShared ==
    \/ \E dagre \in DagreChoices : MountedShared(dagre)
    \/ \E f \in DOMAIN SharedFragments, dagre \in DagreChoices : AddSubGraphShared(f, dagre)

SpecShared == Init /\ [][NextShared]_vars

(***************************************************************************)
(* Properties of the addSubGraph that shares nodes                         *)
(***************************************************************************)

\* C26: append-only merge.  A call only appends: the nodes list of before
\* the call is a prefix of the nodes list after it, every record of it
\* unchanged in every field, and the edges list of before the call is a
\* prefix of the edges list after it.
AppendOnlyMerge ==
    [][/\ Len(nodes') >= Len(nodes)
       /\ SubSeq(nodes', 1, Len(nodes)) = nodes
       /\ Len(edges') >= Len(edges)
       /\ SubSeq(edges', 1, Len(edges)) = edges]_vars


\* the edge records the latest call appended to the edges list
AddedEdges == SubSeq(edges, Len(last.existingEdges) + 1, Len(edges))

\* the edges of the latest call's fragment from a node that was on the canvas
\* to a node that was not
RewiredEdges ==
    {e \in Range(SharedFragmentOf(LastCall.frag).edges) :
        /\ e.source \in ExistingNodeIds(last.existingNodes)
        /\ e.target \notin ExistingNodeIds(last.existingNodes)}

\* the latest call added one temp root and one link edge for the source of
\* every edge of RewiredEdges, added every edge of emitted as an edge from
\* the temp root and not from the source, and added no other edge from a node
\* that was on the canvas to a node it added
Rewired(emitted) ==
    LET TempOf(s) == LastCall.prefix \o "temp_" \o s
    IN  /\ \A s \in {e.source : e \in RewiredEdges} :
              /\ Cardinality({i \in DOMAIN AddedRecords :
                                AddedRecords[i].id = TempOf(s)}) = 1
              /\ Cardinality({i \in DOMAIN AddedEdges :
                                /\ AddedEdges[i].source = s
                                /\ AddedEdges[i].target = TempOf(s)}) = 1
        /\ \A e \in emitted :
              /\ HasEdgeRecord(TempOf(e.source), e.target)
              /\ \E i \in DOMAIN AddedEdges :
                    /\ AddedEdges[i].source = TempOf(e.source)
                    /\ AddedEdges[i].target = e.target
        /\ \A e \in RewiredEdges :
              ~\E i \in DOMAIN AddedEdges :
                    AddedEdges[i].source = e.source /\ AddedEdges[i].target = e.target
        /\ \A i \in DOMAIN AddedEdges :
              (/\ AddedEdges[i].source \in ExistingNodeIds(last.existingNodes)
               /\ AddedEdges[i].target \in ExistingNodeIds(AddedRecords))
                => AddedEdges[i].target = TempOf(AddedEdges[i].source)

====
